---- MODULE Spec2Model ----
(***************************************************************************)
(* Moderation automation of the sunos plugin: the group event pipeline     *)
(* (core/handlers.py), the notification throttle (core/utils.py), the      *)
(* blacklist store and service (core/database.py, core/services.py), the   *)
(* platform adapter (core/platform.py), the permission manager             *)
(* (core/permissions.py) and the OneBot HTTP client                        *)
(* (core/onebot_adapter.py).                                               *)
(*                                                                         *)
(* Chinese string literals of the source are written with ASCII stand-ins  *)
(* of the same length in characters:                                       *)
(*   "ZDTQ"   = "主动退群"      "BTCQ"  = "被踢出群"                       *)
(*   "LKQL("  = "离开群聊("     "HMDYH" = "黑名单用户"                     *)
(*   "HMDYH:" = "黑名单用户："  "HYJRQL!" = "欢迎加入群聊！"                *)
(***************************************************************************)
EXTENDS Integers, Sequences, FiniteSets, Bags, TLC

\* ------------------------------------------------------------------------
\* Bounds of the model
\* ------------------------------------------------------------------------
MaxInFlight == 2
MaxTicks == 1
MaxRows == 3
MaxClosers == 1
MaxTemplateLen == 3
StartTime == 1000

\* ------------------------------------------------------------------------
\* Program constants
\* ------------------------------------------------------------------------
Cooldown == 30
CacheTtl == 300
ReasonMaxLen == 200
DefaultMaxRetries == 3

NULL == "NULL"

Groups == {"333", "444"}
Users == {"222"}
AdminIds == {"9001"}
SYSTEM_AUTO == "system_auto"
PermUsers == {"222", "555"}
PermGroup == "333"

RECURSIVE Rep(_)
Rep(n) == IF n = 0 THEN "" ELSE "x" \o Rep(n - 1)

\* a sub_type long enough for the derived reason to exceed ReasonMaxLen
LongSubType == Rep(ReasonMaxLen - 5)

\* raw sub_type values of a group_decrease notice (NULL: field absent)
RawSubTypes == {"leave", "kick", "kick_me", NULL, LongSubType}

VARIABLES
    blacklist,      \* the blacklist table: a bag of rows
    welcome,        \* the welcome_messages table: group_id -> template or NULL
    lastNotif,      \* NotificationManager._last_notification_time
    clock,          \* time.time()
    ticks,          \* number of clock advances so far
    pending,        \* join handlers suspended in kick_user_from_group
    last,           \* what the most recent handler step did
    sent,           \* history: key -> times at which should_send returned True
    departed,       \* history: the <<user, group>> of the departures handled
                    \* with a working store, no row of the user removed since
    permCache,      \* PermissionManager._group_admin_cache
    permStamps,     \* PermissionManager._cache_timestamps
    cacheLock,      \* PermissionManager._cache_lock
    resolving,      \* resolutions suspended in get_group_member_info
    liveCalls,      \* history: key -> start times of the resolutions that
                    \* issued a get_group_member_info call
    lastPerm,       \* what the most recent permission step did
    lastCmd,        \* what the most recent step of a decorated command did
    adapterClosed,  \* OneBotAdapter._closed
    session,        \* OneBotAdapter._session: "none", "open" or "closed"
    closing,        \* close() calls suspended in session.close()
    max_retries,    \* OneBotConfig.max_retries
    call,           \* the _make_request call in progress or just ended
    closeCompleted  \* history: some close() call has returned

evtVars == <<blacklist, welcome, lastNotif, pending, last, sent, departed>>
permVars == <<permCache, permStamps, cacheLock, resolving, liveCalls, lastPerm, lastCmd>>
reqVars == <<adapterClosed, session, closing, max_retries, call, closeCompleted>>
vars == <<blacklist, welcome, lastNotif, clock, ticks, pending, last, sent, departed,
          permCache, permStamps, cacheLock, resolving, liveCalls, lastPerm, lastCmd,
          adapterClosed, session, closing, max_retries, call, closeCompleted>>

\* ------------------------------------------------------------------------
\* Strings
\* ------------------------------------------------------------------------
Digits == {"0", "1", "2", "3", "4", "5", "6", "7", "8", "9"}

\* str.isdigit()
IsDigit(s) == Len(s) > 0 /\ \A i \in 1..Len(s) : SubSeq(s, i, i) \in Digits

\* not text.strip()
IsBlank(s) == \A i \in 1..Len(s) : SubSeq(s, i, i) = " "

\* ValidationUtils.validate_user_id
validate_user_id(user_id) == IsDigit(user_id)

\* ValidationUtils.validate_input_length: the boolean of the result
validate_input_length(text, max_length) ==
    IF text = "" \/ IsBlank(text) THEN FALSE
    ELSE IF Len(text) > max_length THEN FALSE
    ELSE TRUE

\* ------------------------------------------------------------------------
\* SunosDatabase: the blacklist table
\* ------------------------------------------------------------------------
Row(u, g, r, by) == [user_id |-> u, group_id |-> g, reason |-> r, added_by |-> by]

Rows(tbl) == BagToSet(tbl)

RowsOf(tbl, u, g) == {row \in Rows(tbl) : row.user_id = u /\ row.group_id = g}

\* the table without every copy of the rows in S
Without(tbl, S) == [row \in (DOMAIN tbl) \ S |-> tbl[row]]

\* SunosDatabase.is_in_blacklist; ok = FALSE: the query raised
is_in_blacklist(tbl, u, g, ok) ==
    IF ~ok THEN FALSE
    ELSE IF RowsOf(tbl, u, NULL) # {} THEN TRUE
    ELSE IF g # NULL /\ g # "" /\ RowsOf(tbl, u, g) # {} THEN TRUE
    ELSE FALSE

\* INSERT OR REPLACE under UNIQUE(user_id, group_id): a row whose group_id is
\* NULL conflicts with no row (NULLs are distinct in a UNIQUE constraint)
InsertOrReplace(tbl, u, by, g, r) ==
    LET conflicts == IF g = NULL THEN {} ELSE RowsOf(tbl, u, g)
    IN  Without(tbl, conflicts) (+) SetToBag({Row(u, g, r, by)})

\* SunosDatabase.add_to_blacklist: <<table after, returned bool>>
add_to_blacklist(tbl, u, by, g, r, ok) ==
    IF ok THEN <<InsertOrReplace(tbl, u, by, g, r), TRUE>> ELSE <<tbl, FALSE>>

\* SunosDatabase.remove_from_blacklist: <<table after, returned bool>>
remove_from_blacklist(tbl, u, g, ok) ==
    IF ok THEN <<Without(tbl, RowsOf(tbl, u, g)), RowsOf(tbl, u, g) # {}>>
    ELSE <<tbl, FALSE>>

\* the None of get_user_blacklist_info
NoRow == [user_id |-> NULL, group_id |-> NULL, reason |-> "", added_by |-> NULL]

\* SunosDatabase.get_user_blacklist_info: the rows fetchone() may return
\* (NoRow: no row, or the query raised)
get_user_blacklist_info(tbl, u, g, ok) ==
    IF ~ok THEN {NoRow}
    ELSE IF g # NULL /\ g # "" /\ RowsOf(tbl, u, g) # {} THEN RowsOf(tbl, u, g)
    ELSE IF RowsOf(tbl, u, NULL) # {} THEN RowsOf(tbl, u, NULL)
    ELSE {NoRow}

\* ------------------------------------------------------------------------
\* BlacklistService
\* ------------------------------------------------------------------------
\* BlacklistService.add_user_to_blacklist: <<table after, success>>
add_user_to_blacklist(tbl, u, by, g, r, ok1, ok2) ==
    IF ~validate_user_id(u) THEN <<tbl, FALSE>>
    ELSE IF ~validate_input_length(r, ReasonMaxLen) THEN <<tbl, FALSE>>
    ELSE IF is_in_blacklist(tbl, u, g, ok1) THEN <<tbl, FALSE>>
    ELSE add_to_blacklist(tbl, u, by, g, r, ok2)

\* the store operations add_user_to_blacklist performs
AddStoreOps(tbl, u, g, r, ok1) ==
    IF ~validate_user_id(u) \/ ~validate_input_length(r, ReasonMaxLen) THEN {}
    ELSE IF is_in_blacklist(tbl, u, g, ok1) THEN {"is_in_blacklist"}
    ELSE {"is_in_blacklist", "add_to_blacklist"}

\* BlacklistService.remove_user_from_blacklist: <<table after, success>>
remove_user_from_blacklist(tbl, u, g, ok1, ok2) ==
    IF ~validate_user_id(u) THEN <<tbl, FALSE>>
    ELSE IF ~is_in_blacklist(tbl, u, g, ok1) THEN <<tbl, FALSE>>
    ELSE remove_from_blacklist(tbl, u, g, ok2)

\* ------------------------------------------------------------------------
\* NotificationManager
\* ------------------------------------------------------------------------
\* self._last_notification_time.get(notification_key, 0)
LastTime(tbl, key) == IF key \in DOMAIN tbl THEN tbl[key] ELSE 0

\* the test taken one second early
CooldownElapsedEarly(now, last_time) == now - last_time >= Cooldown - 1

\* the test with a strict comparison
CooldownElapsedStrict(now, last_time) == now - last_time > Cooldown

\* the test of should_send_notification
CooldownElapsed(now, last_time) == now - last_time >= Cooldown

\* a throttle that answers True without recording the time of the answer
should_send_unrecorded(tbl, key, now) ==
    <<tbl, CooldownElapsed(now, LastTime(tbl, key))>>

\* a throttle that records the time of every call, suppressed or not
should_send_touching(tbl, key, now) ==
    <<[k \in (DOMAIN tbl) \cup {key} |-> IF k = key THEN now ELSE tbl[k]],
      CooldownElapsed(now, LastTime(tbl, key))>>

\* NotificationManager.should_send_notification: <<table after, returned bool>>
should_send_notification(tbl, key, now) ==
    IF CooldownElapsed(now, LastTime(tbl, key))
    THEN <<[k \in (DOMAIN tbl) \cup {key} |-> IF k = key THEN now ELSE tbl[k]], TRUE>>
    ELSE <<tbl, FALSE>>

JoinKey(g) == <<"blacklist_join", g>>
LeaveKey(g) == <<"member_leave", g>>
NotifKeys == {JoinKey(g) : g \in Groups} \cup {LeaveKey(g) : g \in Groups}

\* ------------------------------------------------------------------------
\* MessageBuilder and the outbound messages
\* ------------------------------------------------------------------------
\* MessageBuilder.build_blacklist_notification
build_blacklist_notification(user_id, is_success, reason, error_msg) ==
    IF is_success
    THEN [kind |-> "blacklist_kicked", user |-> user_id, reason |-> reason, error |-> ""]
    ELSE [kind |-> "blacklist_kick_failed", user |-> user_id, reason |-> reason,
          error |-> error_msg]

\* A template is the sequence of its pieces: the placeholders "{user}" and
\* "{group}", a blank " ", or a word of visible text.  NoTemplate is what
\* `if welcome_msg` takes for no template: None (no row) and "".
NoTemplate == <<>>

\* Comp.At(qq=user_id) and Comp.Plain(text)
At(user_id) == [type |-> "At", qq |-> user_id, text |-> <<>>]
Plain(text) == [type |-> "Plain", qq |-> "", text |-> text]

\* welcome_msg.split("{user}"): the parts between the occurrences, the empty
\* ones included
RECURSIVE split_user(_)
split_user(msg) ==
    IF msg = <<>> THEN << <<>> >>
    ELSE LET rest == split_user(Tail(msg))
         IN  IF Head(msg) = "{user}"
             THEN << <<>> >> \o rest
             ELSE << <<Head(msg)>> \o rest[1] >> \o Tail(rest)

\* part.replace("{group}", group_id)
replace_group(part, group_id) ==
    [i \in 1..Len(part) |-> IF part[i] = "{group}" THEN group_id ELSE part[i]]

\* text.strip(): whether anything but white space is left
strip_nonempty(text) == \E i \in 1..Len(text) : text[i] \notin {" ", ""}

\* a default chain of the greeting alone
DefaultChainWithoutMention(user_id) == <<Plain(<<" ", "HYJRQL!">>)>>

\* [Comp.At(qq=user_id), Comp.Plain(" HYJRQL!")]
DefaultChain(user_id) == <<At(user_id), Plain(<<" ", "HYJRQL!">>)>>

\* a loop that appends every part, the empty and the blank ones included
RECURSIVE welcome_loop_unfiltered(_, _, _, _)
welcome_loop_unfiltered(parts, i, user_id, group_id) ==
    IF i > Len(parts) THEN <<>>
    ELSE (IF i > 1 THEN <<At(user_id)>> ELSE <<>>)
         \o <<Plain(replace_group(parts[i], group_id))>>
         \o welcome_loop_unfiltered(parts, i + 1, user_id, group_id)

\* the loop of build_welcome_chain over parts[i..] (lines 113-120)
RECURSIVE welcome_loop(_, _, _, _)
welcome_loop(parts, i, user_id, group_id) ==
    IF i > Len(parts) THEN <<>>
    ELSE LET text == replace_group(parts[i], group_id)
         IN  (IF i > 1 THEN <<At(user_id)>> ELSE <<>>)
             \o (IF parts[i] # <<>> /\ strip_nonempty(text) THEN <<Plain(text)>> ELSE <<>>)
             \o welcome_loop(parts, i + 1, user_id, group_id)

\* MessageBuilder.build_welcome_chain
build_welcome_chain(welcome_msg, user_id, group_id) ==
    LET chain == welcome_loop(split_user(welcome_msg), 1, user_id, group_id)
    IN  IF chain = <<>> THEN DefaultChain(user_id) ELSE chain

\* the welcome message of handle_member_join: the chain of the group's
\* template when one is stored, the default greeting otherwise
WelcomeMessage(tpl, user_id, group_id) ==
    IF tpl # NoTemplate
    THEN [kind |-> "welcome", user |-> user_id, reason |-> "", error |-> "",
          chain |-> build_welcome_chain(tpl, user_id, group_id)]
    ELSE [kind |-> "default_welcome", user |-> user_id, reason |-> "", error |-> "",
          chain |-> DefaultChain(user_id)]

\* a departure message put together before the blacklist step has returned
LeaveMessageBlind(user_id, outcome) ==
    [kind |-> "member_left", user |-> user_id, reason |-> "", error |-> ""]

\* event.plain_result(notification_msg) of handle_member_leave
LeaveMessage(user_id, outcome) ==
    [kind |-> "member_left", user |-> user_id, reason |-> outcome, error |-> ""]

WelcomeKinds == {"welcome", "default_welcome"}

Kinds(out) == {out[i].kind : i \in 1..Len(out)}

\* ------------------------------------------------------------------------
\* The record of the most recent handler step
\* ------------------------------------------------------------------------
NoStep ==
    [op |-> "none", group |-> NULL, user |-> NULL, sub |-> NULL, checked |-> FALSE,
     kickCalled |-> FALSE, kickIssued |-> FALSE, finished |-> FALSE,
     success |-> FALSE, notifyCalled |-> FALSE, notified |-> FALSE, out |-> <<>>,
     store |-> {}, caught |-> FALSE, propagated |-> FALSE,
     platform |-> "none", lookup |-> "none"]

Step(op, g, u, sub, checked, called, issued, finished, success, ncalled, notified, out) ==
    [op |-> op, group |-> g, user |-> u, sub |-> sub, checked |-> checked,
     kickCalled |-> called, kickIssued |-> issued, finished |-> finished,
     success |-> success, notifyCalled |-> ncalled, notified |-> notified, out |-> out,
     store |-> {}, caught |-> FALSE, propagated |-> FALSE,
     platform |-> "none", lookup |-> "none"]

\* the step with the store operations it performed
WithStore(step, ops) == [step EXCEPT !.store = ops]

\* the step of a kick_user_from_group call that passed the platform check
\* (event.get_platform_name()) and went on to the live lookup
WithPlatform(step, name) == [step EXCEPT !.platform = name]

\* the step in which the live lookup of the bot's role returned resp
WithLookup(step, resp) == [step EXCEPT !.lookup = resp]

\* a handle_group_events without its except clause
BoundaryWithoutHandler(raised) == [caught |-> FALSE, propagated |-> raised]

\* the try / except Exception of handle_group_events (lines 35, 61-62): what
\* becomes of an exception raised while the event is processed
Boundary(raised) == [caught |-> raised, propagated |-> FALSE]

\* the step that ended in an exception
WithException(step) ==
    [step EXCEPT !.caught = Boundary(TRUE).caught,
                 !.propagated = Boundary(TRUE).propagated]

\* the history of the calls of should_send_notification that returned True
Record(hist, key, now, notify) ==
    IF notify THEN [hist EXCEPT ![key] = Append(@, now)] ELSE hist

\* a join handler suspended in kick_user_from_group
Suspended(pc, g, u, reason) == [pc |-> pc, group |-> g, user |-> u, reason |-> reason]

InFlight == BagToSet(pending)

\* ------------------------------------------------------------------------
\* GroupEventHandler.handle_member_join
\* ------------------------------------------------------------------------
\* reason computed from the row of get_user_blacklist_info (handlers.py 87-90)
JoinReason(info) ==
    IF info = NoRow THEN ""
    ELSE IF info.reason # "" THEN info.reason ELSE "HMDYH"

\* the store operations of a join that found the user blacklisted (lines 82-86)
JoinLookups == {"is_in_blacklist", "get_user_blacklist_info"}

\* a handler that goes on to the welcome message when the kick failed
ReachesWelcomeAfterFailedKick(checked, success) == ~checked \/ ~success

\* whether handle_member_join goes on to the welcome message (lines 118-128):
\* the blacklist branch ends with the return of line 116, whatever the kick
\* returned
ReachesWelcome(checked, success) == ~checked

\* a welcome part that yields its message twice
WelcomePartRepeated(g, u, reached) ==
    IF reached THEN <<WelcomeMessage(welcome[g], u, g), WelcomeMessage(welcome[g], u, g)>>
    ELSE <<>>

\* lines 118-128: the message yielded when the welcome part is reached
WelcomePart(g, u, reached) ==
    IF reached THEN <<WelcomeMessage(welcome[g], u, g)>> ELSE <<>>

\* lines 99-116: throttle, notification, return without welcome
\* (op: "join" when the handler got here without suspending, "join_resume"
\* when it got here after a platform call returned)
ConcludeBlacklistedJoin(op, g, u, reason, issued, success, kick_msg) ==
    LET r == should_send_notification(lastNotif, JoinKey(g), clock)
        chain == build_blacklist_notification(u, success, reason,
                                              IF success THEN "" ELSE kick_msg)
    IN  /\ lastNotif' = r[1]
        /\ sent' = Record(sent, JoinKey(g), clock, r[2])
        /\ last' = WithStore(
                      Step(op, g, u, NULL, TRUE, TRUE, issued, TRUE, success,
                           TRUE, r[2],
                           (IF r[2] THEN <<chain>> ELSE <<>>)
                               \o WelcomePart(g, u, ReachesWelcome(TRUE, success))),
                      IF op = "join" THEN JoinLookups ELSE {})

\* lines 118-130 for a user the blacklist check let through
ConcludeWelcome(g, u) ==
    /\ last' = WithStore(
                  Step("join", g, u, NULL, FALSE, FALSE, FALSE, TRUE, FALSE,
                       FALSE, FALSE, WelcomePart(g, u, ReachesWelcome(FALSE, FALSE))),
                  {"is_in_blacklist", "get_welcome_message"})
    /\ UNCHANGED <<lastNotif, sent>>

\* handle_member_join up to its first suspension: the blacklist check, the
\* lookup of the reason and the synchronous prefix of kick_user_from_group
\* (platform check, platform instance lookup of is_bot_group_admin)
JoinStart(g, u, platform, ok1, ok2, inst) ==
    /\ UNCHANGED <<permVars, reqVars, departed>>
    /\ UNCHANGED <<blacklist, welcome, clock, ticks>>
    /\ LET checked == is_in_blacklist(blacklist, u, g, ok1)
       IN  IF ~checked
           THEN /\ ConcludeWelcome(g, u)
                /\ UNCHANGED pending
           ELSE \E info \in get_user_blacklist_info(blacklist, u, g, ok2) :
                LET reason == JoinReason(info)
                IN  IF platform # "aiocqhttp"
                    THEN /\ ConcludeBlacklistedJoin("join", g, u, reason, FALSE, FALSE, "unsupported")
                         /\ UNCHANGED pending
                    ELSE IF ~inst \/ ~IsDigit(g)
                    THEN /\ ConcludeBlacklistedJoin("join", g, u, reason, FALSE, FALSE, "no_admin")
                         /\ UNCHANGED pending
                    ELSE /\ BagCardinality(pending) < MaxInFlight
                         /\ pending' = pending (+) SetToBag({Suspended("bot_role", g, u, reason)})
                         /\ last' = WithPlatform(
                                       WithStore(
                                          Step("join", g, u, NULL, TRUE, TRUE, FALSE, FALSE,
                                               FALSE, FALSE, FALSE, <<>>),
                                          JoinLookups),
                                       platform)
                         /\ UNCHANGED <<lastNotif, sent>>

\* whether handle_group_events hands the event to a handler (lines 36-46):
\* it has a group id, its notice is a group_increase or a group_decrease,
\* and it names a user
Routed(group_id, notice_type, user_id) ==
    /\ group_id # NULL /\ group_id # ""
    /\ notice_type \in {"group_increase", "group_decrease"}
    /\ user_id # NULL /\ user_id # ""

\* handle_group_events of an event it does not route: it returns at once
EventIgnored(g, notice, u) ==
    /\ ~Routed(g, notice, u)
    /\ last' = Step("ignored", g, u, notice, FALSE, FALSE, FALSE, TRUE, FALSE,
                    FALSE, FALSE, <<>>)
    /\ UNCHANGED <<blacklist, welcome, lastNotif, clock, ticks, pending, sent>>
    /\ UNCHANGED <<permVars, reqVars, departed>>

\* handle_group_events raises before it reaches a handler (event.get_group_id
\* or the reading of the notice)
EventRaises(g, u) ==
    /\ last' = WithException(Step("event", g, u, NULL, FALSE, FALSE, FALSE, TRUE, FALSE,
                                   FALSE, FALSE, <<>>))
    /\ UNCHANGED <<blacklist, welcome, lastNotif, clock, ticks, pending, sent>>
    /\ UNCHANGED <<permVars, reqVars, departed>>

\* handle_member_join of a user the blacklist check lets through, the
\* building of the welcome chain raising (lines 119-128): nothing is yielded
JoinWelcomeRaises(g, u, ok1) ==
    /\ ~is_in_blacklist(blacklist, u, g, ok1)
    /\ last' = WithException(
                  WithStore(Step("join", g, u, NULL, FALSE, FALSE, FALSE, TRUE, FALSE,
                                 FALSE, FALSE, <<>>),
                            {"is_in_blacklist", "get_welcome_message"}))
    /\ UNCHANGED <<blacklist, welcome, lastNotif, clock, ticks, pending, sent>>
    /\ UNCHANGED <<permVars, reqVars, departed>>

\* a role test that takes every role the platform reports for an
\* administrator's
BotIsAdminAnyRole(resp) == resp \notin {"empty", "raise"}

\* is_bot_group_admin after the lookup returned: a dict whose role is owner
\* or admin (lines 90-98); False for another response and for an exception
BotIsAdmin(resp) == resp \in {"owner", "admin"}

\* the get_group_member_info call of is_bot_group_admin returns
\* (resp: the role reported, "empty" for a falsy or non-dict response,
\* "raise" for an exception), then kick_user_from_group continues up to the
\* set_group_kick call
BotRoleReturn(p, resp, inst) ==
    /\ UNCHANGED <<permVars, reqVars, departed>>
    /\ p \in InFlight
    /\ p.pc = "bot_role"
    /\ UNCHANGED <<blacklist, welcome, clock, ticks>>
    /\ LET rest == pending (-) SetToBag({p})
       IN  IF ~BotIsAdmin(resp)
           THEN /\ ConcludeBlacklistedJoin("join_resume", p.group, p.user, p.reason, FALSE, FALSE, "no_admin")
                /\ pending' = rest
           ELSE IF ~inst
           THEN /\ ConcludeBlacklistedJoin("join_resume", p.group, p.user, p.reason, FALSE, FALSE, "no_instance")
                /\ pending' = rest
           ELSE IF ~IsDigit(p.user)
           THEN /\ ConcludeBlacklistedJoin("join_resume", p.group, p.user, p.reason, FALSE, FALSE, "error")
                /\ pending' = rest
           ELSE /\ pending' = rest (+) SetToBag({Suspended("kick", p.group, p.user, p.reason)})
                /\ last' = WithLookup(
                              Step("join_resume", p.group, p.user, NULL, TRUE, TRUE, TRUE, FALSE,
                                   FALSE, FALSE, FALSE, <<>>),
                              resp)
                /\ UNCHANGED <<lastNotif, sent>>

\* the set_group_kick call returns (ok) or raises (~ok)
KickReturn(p, ok) ==
    /\ UNCHANGED <<permVars, reqVars, departed>>
    /\ p \in InFlight
    /\ p.pc = "kick"
    /\ UNCHANGED <<blacklist, welcome, clock, ticks>>
    /\ ConcludeBlacklistedJoin("join_resume", p.group, p.user, p.reason, TRUE, ok,
                                   IF ok THEN "kicked" ELSE "error")
    /\ pending' = pending (-) SetToBag({p})

\* ------------------------------------------------------------------------
\* GroupEventHandler.handle_member_leave
\* ------------------------------------------------------------------------
\* str(sub_type or "unknown") of handle_group_events
SubTypeText(raw) == IF raw = NULL \/ raw = "" THEN "unknown" ELSE raw

\* a reason map without the entry of kick_me
LeaveReasonWithoutBotEntry(sub_type) ==
    IF sub_type = "leave" THEN "ZDTQ"
    ELSE IF sub_type = "kick" THEN "BTCQ"
    ELSE "LKQL(" \o sub_type \o ")"

\* reason_map.get(sub_type, ...): NULL for kick_me
LeaveReason(sub_type) ==
    IF sub_type = "leave" THEN "ZDTQ"
    ELSE IF sub_type = "kick" THEN "BTCQ"
    ELSE IF sub_type = "kick_me" THEN NULL
    ELSE "LKQL(" \o sub_type \o ")"

\* an automatic blacklisting that reports every attempted insert as done
AutoBlacklistOptimistic(tbl, g, u, reason, ok1, ok2, ok3) ==
    IF reason = ""
    THEN <<tbl, "">>
    ELSE IF ~is_in_blacklist(tbl, u, g, ok1)
    THEN <<add_user_to_blacklist(tbl, u, SYSTEM_AUTO, g, reason, ok2, ok3)[1], "added">>
    ELSE <<tbl, "already">>

\* lines 152-173: <<table after, outcome text>>
AutoBlacklist(tbl, g, u, reason, ok1, ok2, ok3) ==
    IF reason = ""
    THEN <<tbl, "">>
    ELSE IF ~is_in_blacklist(tbl, u, g, ok1)
    THEN LET r == add_user_to_blacklist(tbl, u, SYSTEM_AUTO, g, reason, ok2, ok3)
         IN  <<r[1], IF r[2] THEN "added" ELSE "failed">>
    ELSE <<tbl, "already">>

\* the store operations of lines 152-173
LeaveStoreOps(tbl, g, u, reason, ok1, ok2) ==
    IF reason = "" THEN {}
    ELSE IF ~is_in_blacklist(tbl, u, g, ok1)
    THEN {"is_in_blacklist"} \cup AddStoreOps(tbl, u, g, reason, ok2)
    ELSE {"is_in_blacklist"}

\* a departure handler that asks the throttle first and skips the blacklist
\* step when the notification is suppressed
LeaveThrottledFirst(g, u, raw, ok1, ok2, ok3) ==
    /\ UNCHANGED <<permVars, reqVars>>
    /\ departed' = IF LeaveReason(SubTypeText(raw)) # NULL /\ IsDigit(u) /\ ok1 /\ ok2 /\ ok3
                   THEN departed \cup {<<u, g>>} ELSE departed
    /\ UNCHANGED <<welcome, clock, ticks, pending>>
    /\ LET sub == SubTypeText(raw)
           reason == LeaveReason(sub)
       IN  IF reason = NULL
           THEN /\ last' = Step("leave", g, u, sub, FALSE, FALSE, FALSE, TRUE, FALSE,
                                FALSE, FALSE, <<>>)
                /\ UNCHANGED <<blacklist, lastNotif, sent>>
           ELSE LET r == should_send_notification(lastNotif, LeaveKey(g), clock)
                    a == IF r[2] THEN AutoBlacklist(blacklist, g, u, reason, ok1, ok2, ok3)
                         ELSE <<blacklist, "">>
                IN  /\ BagCardinality(a[1]) <= MaxRows
                    /\ blacklist' = a[1]
                    /\ lastNotif' = r[1]
                    /\ sent' = Record(sent, LeaveKey(g), clock, r[2])
                    /\ last' = WithStore(
                                  Step("leave", g, u, sub, is_in_blacklist(blacklist, u, g, ok1),
                                       FALSE, FALSE, TRUE, a[2] = "added", TRUE, r[2],
                                       IF r[2] THEN <<LeaveMessage(u, a[2])>> ELSE <<>>),
                                  IF r[2] THEN LeaveStoreOps(blacklist, g, u, reason, ok1, ok2) ELSE {})

\* GroupEventHandler.handle_member_leave (lines 132-183)
Leave(g, u, raw, ok1, ok2, ok3) ==
    /\ UNCHANGED <<permVars, reqVars>>
    /\ departed' = IF LeaveReason(SubTypeText(raw)) # NULL /\ IsDigit(u) /\ ok1 /\ ok2 /\ ok3
                   THEN departed \cup {<<u, g>>} ELSE departed
    /\ UNCHANGED <<welcome, clock, ticks, pending>>
    /\ LET sub == SubTypeText(raw)
           reason == LeaveReason(sub)
       IN  IF reason = NULL
           THEN /\ last' = Step("leave", g, u, sub, FALSE, FALSE, FALSE, TRUE, FALSE,
                                FALSE, FALSE, <<>>)
                /\ UNCHANGED <<blacklist, lastNotif, sent>>
           ELSE LET a == AutoBlacklist(blacklist, g, u, reason, ok1, ok2, ok3)
                    r == should_send_notification(lastNotif, LeaveKey(g), clock)
                IN  /\ BagCardinality(a[1]) <= MaxRows
                    /\ blacklist' = a[1]
                    /\ lastNotif' = r[1]
                    /\ sent' = Record(sent, LeaveKey(g), clock, r[2])
                    /\ last' = WithStore(
                                  Step("leave", g, u, sub, is_in_blacklist(blacklist, u, g, ok1),
                                       FALSE, FALSE, TRUE, a[2] = "added", TRUE, r[2],
                                       IF r[2] THEN <<LeaveMessage(u, a[2])>> ELSE <<>>),
                                  LeaveStoreOps(blacklist, g, u, reason, ok1, ok2))

\* ------------------------------------------------------------------------
\* PermissionManager (core/permissions.py)
\* ------------------------------------------------------------------------
\* event.platform_meta: absent, or the owner id and the admin ids of the group
NoMeta == [owner_id |-> NULL, group_admins |-> {}, present |-> FALSE]
MetaOf(owner, admins) == [owner_id |-> owner, group_admins |-> admins, present |-> TRUE]

\* the inbound command event: sender, group ("" when not a group chat),
\* event.role, platform name, whether event.bot with an api is at hand, and
\* the static metadata
Event(sender, group, role, platform, client, meta) ==
    [sender |-> sender, group |-> group, role |-> role, platform |-> platform,
     client |-> client, meta |-> meta]

\* PermissionManager._check_platform_meta_admin
check_platform_meta_admin(meta, user_id) ==
    IF ~meta.present THEN FALSE
    ELSE IF meta.owner_id # NULL /\ meta.owner_id # "" /\ user_id = meta.owner_id THEN TRUE
    ELSE IF meta.group_admins # {} /\ user_id \in meta.group_admins THEN TRUE
    ELSE FALSE

\* PermissionManager._is_group_admin (synchronous, static metadata only)
is_group_admin(event, group_id) ==
    IF event.sender = "" THEN FALSE
    ELSE check_platform_meta_admin(event.meta, event.sender)

\* PermissionManager.get_user_permission_level
get_user_permission_level(event) ==
    IF event.role = "admin" THEN "super_admin"
    ELSE IF event.group # "" /\ is_group_admin(event, event.group) THEN "group_admin"
    ELSE "user"

\* a check that admits group administrators whatever level is required
check_permission_any_admin(event, required_level) ==
    get_user_permission_level(event) \in {"super_admin", "group_admin"}

\* PermissionManager.check_permission(event, required_level)
check_permission(event, required_level) ==
    IF required_level = "super_admin"
    THEN get_user_permission_level(event) = "super_admin"
    ELSE get_user_permission_level(event) \in {"super_admin", "group_admin"}

\* cache_key = f"{group_id}_{user_id}"
CacheKey(group_id, user_id) == <<group_id, user_id>>

\* a cache test that never finds an entry
CacheHitIgnored(cache, stamps, key, now) == FALSE

\* a cache test that still uses an entry at the age of CacheTtl
CacheHitAtTtl(cache, stamps, key, now) ==
    /\ key \in DOMAIN cache
    /\ key \in DOMAIN stamps
    /\ now - stamps[key] <= CacheTtl

\* the cache test of _is_group_admin_async (lines 60-64)
CacheHit(cache, stamps, key, now) ==
    /\ key \in DOMAIN cache
    /\ key \in DOMAIN stamps
    /\ now - stamps[key] < CacheTtl

\* a cleanup that drops the expired values and keeps their timestamps
cleanup_values_only(cache, stamps, current_time) ==
    LET expired == {k \in DOMAIN stamps : current_time - stamps[k] >= CacheTtl}
    IN  <<[k \in (DOMAIN cache) \ expired |-> cache[k]], stamps>>

\* PermissionManager._cleanup_expired_cache: <<cache after, stamps after>>
cleanup_expired_cache(cache, stamps, current_time) ==
    LET expired == {k \in DOMAIN stamps : current_time - stamps[k] >= CacheTtl}
    IN  <<[k \in (DOMAIN cache) \ expired |-> cache[k]],
          [k \in (DOMAIN stamps) \ expired |-> stamps[k]]>>

\* the cache write followed by the cleanup (lines 102-104 and 122-124)
StoreResult(cache, stamps, key, value, current_time) ==
    cleanup_expired_cache(
        [k \in (DOMAIN cache) \cup {key} |-> IF k = key THEN value ELSE cache[k]],
        [k \in (DOMAIN stamps) \cup {key} |-> IF k = key THEN current_time ELSE stamps[k]],
        current_time)

\* threading.RLock: the thread that owns the lock may take it again; every
\* coroutine runs in the thread of the event loop
LoopThread == "event_loop"

RLockFree == [owner |-> NULL, count |-> 0]

RLockCanAcquire(lock, thread) == lock.owner = NULL \/ lock.owner = thread

RLockAcquire(lock, thread) == [owner |-> thread, count |-> lock.count + 1]

RLockRelease(lock) ==
    IF lock.count = 1 THEN RLockFree ELSE [lock EXCEPT !.count = @ - 1]

\* whether the live lookup of lines 73-85 gets as far as the call_action:
\* the platform is aiocqhttp, the event carries a client with an api, and
\* int(group_id), int(user_id) do not raise
LiveLookupPossible(event) ==
    /\ event.platform = "aiocqhttp"
    /\ event.client
    /\ IsDigit(event.group)
    /\ IsDigit(event.sender)

\* role in ['owner', 'admin'] of a non-empty response (lines 89-96)
RoleIsAdmin(resp) == resp \in {"owner", "admin"}

\* a resolution that an exception of the live lookup ends as a refusal
AfterLookupRaiseRefuses(resp, event) ==
    IF RoleIsAdmin(resp) THEN <<TRUE, FALSE>>
    ELSE IF resp = "raise" THEN <<FALSE, FALSE>>
    ELSE <<check_platform_meta_admin(event.meta, event.sender), TRUE>>

\* what the resolution does once the live lookup is over (lines 89-126):
\* <<value cached and returned, whether the static metadata was consulted>>
AfterLookup(resp, event) ==
    IF RoleIsAdmin(resp) THEN <<TRUE, FALSE>>
    ELSE <<check_platform_meta_admin(event.meta, event.sender), TRUE>>

\* a resolution suspended in its get_group_member_info call
Resolution(key, started, event) == [key |-> key, started |-> started, event |-> event]

Resolving == BagToSet(resolving)

NoCheck ==
    [op |-> "none", event |-> Event("", "", "member", "webchat", FALSE, NoMeta),
     hit |-> FALSE, called |-> FALSE, finished |-> FALSE, result |-> FALSE,
     resp |-> "none", usedMeta |-> FALSE, started |-> 0]

Check(op, event, hit, called, finished, result, resp, usedMeta, started) ==
    [op |-> op, event |-> event, hit |-> hit, called |-> called,
     finished |-> finished, result |-> result, resp |-> resp,
     usedMeta |-> usedMeta, started |-> started]

\* a check that refuses every actor without looking at the event
CheckAsyncRefusing(event) ==
    /\ UNCHANGED <<clock, ticks>>
    /\ lastPerm' = Check("check", event, FALSE, FALSE, TRUE, FALSE, "none", FALSE, clock)
    /\ UNCHANGED <<permCache, permStamps, cacheLock, resolving, liveCalls>>

\* check_admin_permission_async, with _is_group_admin_async up to its first
\* suspension or its return
CheckAsync(event) ==
    /\ UNCHANGED <<clock, ticks>>
    /\ IF event.role = "admin"
       THEN /\ lastPerm' = Check("check", event, FALSE, FALSE, TRUE, TRUE, "none", FALSE, clock)
            /\ UNCHANGED <<permCache, permStamps, cacheLock, resolving, liveCalls>>
       ELSE IF event.group = "" \/ event.sender = ""
       THEN /\ lastPerm' = Check("check", event, FALSE, FALSE, TRUE, FALSE, "none", FALSE, clock)
            /\ UNCHANGED <<permCache, permStamps, cacheLock, resolving, liveCalls>>
       ELSE LET key == CacheKey(event.group, event.sender)
            IN  /\ RLockCanAcquire(cacheLock, LoopThread)
                /\ IF CacheHit(permCache, permStamps, key, clock)
                   THEN /\ lastPerm' = Check("resolve", event, TRUE, FALSE, TRUE,
                                             permCache[key], "none", FALSE, clock)
                        /\ UNCHANGED <<permCache, permStamps, cacheLock, resolving, liveCalls>>
                   ELSE IF LiveLookupPossible(event)
                   THEN /\ BagCardinality(resolving) < MaxInFlight
                        /\ cacheLock' = RLockAcquire(cacheLock, LoopThread)
                        /\ resolving' = resolving (+) SetToBag({Resolution(key, clock, event)})
                        /\ liveCalls' = [liveCalls EXCEPT ![key] = Append(@, clock)]
                        /\ lastPerm' = Check("resolve", event, FALSE, TRUE, FALSE, FALSE,
                                             "none", FALSE, clock)
                        /\ UNCHANGED <<permCache, permStamps>>
                   ELSE LET v == check_platform_meta_admin(event.meta, event.sender)
                            st == StoreResult(permCache, permStamps, key, v, clock)
                        IN  /\ permCache' = st[1]
                            /\ permStamps' = st[2]
                            /\ lastPerm' = Check("resolve", event, FALSE, FALSE, TRUE, v,
                                                 "none", TRUE, clock)
                            /\ UNCHANGED <<cacheLock, resolving, liveCalls>>

\* the get_group_member_info call of a suspended resolution returns resp (a
\* role, "empty" for a falsy response, "raise" for an exception); the
\* resolution runs to its return and leaves the with block
ApiReturn(r, resp) ==
    /\ r \in Resolving
    /\ UNCHANGED <<clock, ticks, liveCalls>>
    /\ LET a == AfterLookup(resp, r.event)
           st == StoreResult(permCache, permStamps, r.key, a[1], r.started)
       IN  /\ permCache' = st[1]
           /\ permStamps' = st[2]
           /\ lastPerm' = Check("api_return", r.event, FALSE, TRUE, TRUE, a[1], resp,
                                a[2], r.started)
    /\ resolving' = resolving (-) SetToBag({r})
    /\ cacheLock' = RLockRelease(cacheLock)

\* ------------------------------------------------------------------------
\* The decorators admin_required and super_admin_required
\* ------------------------------------------------------------------------
\* the denial message a decorator yields (lines 242 and 270)
Denial(gate) == [kind |-> "denied", gate |-> gate]

\* no decorated command has run yet
NoCmd ==
    [gate |-> "none", event |-> Event("", "", "member", "webchat", FALSE, NoMeta),
     finished |-> FALSE, body |-> FALSE, out |-> <<>>]

\* a wrapper suspended in its permission check
Awaiting(gate, event) ==
    [gate |-> gate, event |-> event, finished |-> FALSE, body |-> FALSE, out |-> <<>>]

\* the wrapper once the check has answered: it yields the denial message and
\* returns, or runs the handler body (out: the messages of the wrapper
\* itself)
Gate(gate, event, has_permission) ==
    [gate |-> gate, event |-> event, finished |-> TRUE, body |-> has_permission,
     out |-> IF has_permission THEN <<>> ELSE <<Denial(gate)>>]

\* the wrapper of super_admin_required (lines 267-274)
super_admin_required(event) ==
    /\ lastCmd' = Gate("super_admin_required", event,
                       check_permission(event, "super_admin"))
    /\ UNCHANGED <<clock, ticks>>
    /\ UNCHANGED <<permCache, permStamps, cacheLock, resolving, liveCalls, lastPerm>>

\* the wrapper of admin_required up to the first suspension of its check, or
\* to its end when the check answers without suspending (lines 238-246)
admin_required(event) ==
    /\ CheckAsync(event)
    /\ lastCmd' = IF lastPerm'.finished
                  THEN Gate("admin_required", event, lastPerm'.result)
                  ELSE Awaiting("admin_required", event)

\* the check of a suspended admin_required wrapper returns
admin_required_resume(r, resp) ==
    /\ ApiReturn(r, resp)
    /\ lastCmd' = Gate("admin_required", r.event, lastPerm'.result)


\* ------------------------------------------------------------------------
\* OneBotAdapter (core/onebot_adapter.py); one _make_request call at a time,
\* max_retries >= 0
\* ------------------------------------------------------------------------
\* a decoded JSON body: the status field ("missing" when absent), the
\* retcode field (hasRetcode FALSE when absent) and the message field
\* ("missing" when absent); kind "nojson" for a body json.loads rejects,
\* "empty" for an empty response text, "jsonvalue" for a JSON text that
\* decodes to something other than an object (a list, null, a number)
Missing == "missing"
Body(kind, status, hasRetcode, retcode) ==
    [kind |-> kind, status |-> status, hasRetcode |-> hasRetcode, retcode |-> retcode,
     message |-> Missing]
WithMessage(body, message) == [body EXCEPT !.message = message]
EmptyBody == Body("empty", Missing, FALSE, 0)

\* what one attempt meets: an HTTP response, or an exception of aiohttp
\* ("connect": ClientConnectorError, "timeout": asyncio.TimeoutError,
\* "client": another ClientError)
Http(status, body) == [kind |-> "http", status |-> status, body |-> body]
NetFail(kind) == [kind |-> kind, status |-> 0, body |-> EmptyBody]

\* a from_dict that takes an absent retcode for 0
from_dict_lenient(body) ==
    LET status == IF body.kind = "json" /\ body.status # Missing
                  THEN body.status ELSE "failed"
        retcode == IF body.kind = "json" /\ body.hasRetcode THEN body.retcode ELSE 0
        success == status = "ok" /\ retcode = 0
    IN  [success |-> success,
         error_message |-> IF success THEN ""
                           ELSE IF body.kind = "json" /\ body.message # Missing
                           THEN body.message ELSE ""]

\* ApiResponse.from_dict: the success flag and the error_message of the
\* ApiResponse built from the decoded body ({} for an empty text)
from_dict(body) ==
    LET status == IF body.kind = "json" /\ body.status # Missing
                  THEN body.status ELSE "failed"
        retcode == IF body.kind = "json" /\ body.hasRetcode THEN body.retcode ELSE -1
        success == status = "ok" /\ retcode = 0
    IN  [success |-> success,
         error_message |-> IF success THEN ""
                           ELSE IF body.kind = "json" /\ body.message # Missing
                           THEN body.message ELSE ""]

\* how a _make_request call ended; error_message is that of the ApiResponse
NoResult == [type |-> "none", success |-> FALSE, status |-> 0, error_message |-> ""]
Returned(response) ==
    [type |-> "ApiResponse", success |-> response.success, status |-> 0,
     error_message |-> response.error_message]
Raised(type, status) ==
    [type |-> type, success |-> FALSE, status |-> status, error_message |-> ""]

\* the call: pc "idle" before the first call, "waiting" in session.request
\* or response.text, "sleeping" in asyncio.sleep(retry_delay), "done" after
\* its return or raise; attempt is the loop variable; requests and sleeps
\* count the HTTP requests sent and the delays begun; seen lists what the
\* attempts met
IdleCall ==
    [pc |-> "idle", attempt |-> 0, requests |-> 0, sleeps |-> 0, seen |-> <<>>,
     result |-> NoResult]

\* OneBotAdapter.__init__ with a configuration of the given max_retries
InitAdapter(retries) ==
    /\ adapterClosed = FALSE
    /\ session = "none"
    /\ closing = 0
    /\ max_retries = retries
    /\ call = IdleCall
    /\ closeCompleted = FALSE

\* OneBotAdapter._ensure_session: the session after the call
ensure_session(s) == IF s = "none" \/ s = "closed" THEN "open" ELSE s

\* a retry test that also retries the last attempt
ServerErrorRetriedOnceMore(status, attempt, retries) ==
    status >= 500 /\ attempt <= retries

\* the retry test of an HTTP error status (line 192)
ServerErrorRetried(status, attempt, retries) ==
    status >= 500 /\ attempt < retries

\* the retry test of the three except clauses (lines 210, 218, 226)
FailureRetried(attempt, retries) == attempt < retries

\* except clauses that all raise the base class
FailureErrorUntyped(kind) == "OneBotApiError"

\* the exception the except clause of a failure raises when it is not retried
FailureError(kind) ==
    IF kind = "connect" THEN "OneBotNetworkError"
    ELSE IF kind = "timeout" THEN "OneBotTimeoutError"
    ELSE "OneBotApiError"

\* one iteration of the for loop begins with loop variable a: past the range
\* the call raises "retries exhausted"; without a usable session the
\* request raises before anything is sent; otherwise the request is sent
BeginAttempt(c, a, s) ==
    IF a > max_retries
    THEN [c EXCEPT !.pc = "done", !.result = Raised("OneBotApiError", 0)]
    ELSE IF s = "none"
    THEN [c EXCEPT !.pc = "done", !.attempt = a,
                   !.result = Raised("AttributeError", 0)]
    ELSE IF s = "closed"
    THEN [c EXCEPT !.pc = "done", !.attempt = a,
                   !.result = Raised("RuntimeError", 0)]
    ELSE [c EXCEPT !.pc = "waiting", !.attempt = a, !.requests = @ + 1]

\* OneBotAdapter.__aenter__
Enter ==
    /\ session' = ensure_session(session)
    /\ UNCHANGED <<adapterClosed, closing, max_retries, call, closeCompleted>>

\* OneBotAdapter._make_request up to its first suspension
MakeRequest ==
    /\ call.pc \in {"idle", "done"}
    /\ IF adapterClosed
       THEN /\ call' = [IdleCall EXCEPT !.pc = "done",
                                        !.result = Raised("OneBotApiError", 0)]
            /\ UNCHANGED session
       ELSE /\ session' = ensure_session(session)
            /\ call' = BeginAttempt(IdleCall, 0, ensure_session(session))
    /\ UNCHANGED <<adapterClosed, closing, max_retries, closeCompleted>>

\* the attempt in progress meets resp
Respond(resp) ==
    /\ call.pc = "waiting"
    /\ LET c == [call EXCEPT !.seen = Append(@, resp)]
       IN  call' =
             IF resp.kind = "http"
             THEN IF resp.status >= 400
                  THEN IF ServerErrorRetried(resp.status, c.attempt, max_retries)
                       THEN [c EXCEPT !.pc = "sleeping", !.sleeps = @ + 1]
                       ELSE [c EXCEPT !.pc = "done",
                                      !.result = Raised("OneBotResponseError", resp.status)]
                  ELSE IF resp.body.kind = "nojson"
                       THEN [c EXCEPT !.pc = "done",
                                      !.result = Raised("OneBotResponseError", 0)]
                       ELSE IF resp.body.kind = "jsonvalue"
                       THEN [c EXCEPT !.pc = "done",
                                      !.result = Raised("AttributeError", 0)]
                       ELSE [c EXCEPT !.pc = "done",
                                      !.result = Returned(from_dict(resp.body))]
             ELSE IF FailureRetried(c.attempt, max_retries)
                  THEN [c EXCEPT !.pc = "sleeping", !.sleeps = @ + 1]
                  ELSE [c EXCEPT !.pc = "done",
                                 !.result = Raised(FailureError(resp.kind), 0)]
    /\ UNCHANGED <<adapterClosed, session, closing, max_retries, closeCompleted>>

\* asyncio.sleep(retry_delay) is over: continue with the next iteration
Wake ==
    /\ call.pc = "sleeping"
    /\ call' = BeginAttempt(call, call.attempt + 1, session)
    /\ UNCHANGED <<adapterClosed, session, closing, max_retries, closeCompleted>>

\* OneBotAdapter.close up to the await of session.close(), or to its end
\* when there is no open session
CloseStart ==
    /\ IF session = "open"
       THEN /\ closing < MaxClosers
            /\ session' = "closed"
            /\ closing' = closing + 1
            /\ UNCHANGED <<adapterClosed, closeCompleted>>
       ELSE /\ adapterClosed' = TRUE
            /\ closeCompleted' = TRUE
            /\ UNCHANGED <<session, closing>>
    /\ UNCHANGED <<max_retries, call>>

\* a close that drops the session without marking the adapter closed
CloseFinishUnmarked ==
    /\ closing > 0
    /\ closing' = closing - 1
    /\ session' = "none"
    /\ closeCompleted' = TRUE
    /\ UNCHANGED <<adapterClosed, max_retries, call>>

\* session.close() returned: lines 149-150
CloseFinish ==
    /\ closing > 0
    /\ closing' = closing - 1
    /\ session' = "none"
    /\ adapterClosed' = TRUE
    /\ closeCompleted' = TRUE
    /\ UNCHANGED <<max_retries, call>>

\* ------------------------------------------------------------------------
\* Administrative blacklist commands and the clock
\* ------------------------------------------------------------------------
AdminAdd(u, by, g, r, ok1, ok2) ==
    LET a == add_user_to_blacklist(blacklist, u, by, g, r, ok1, ok2)
    IN  /\ BagCardinality(a[1]) <= MaxRows
        /\ a[2]
        /\ blacklist' = a[1]
        /\ last' = WithStore(Step("add", g, u, NULL, FALSE, FALSE, FALSE, TRUE, TRUE,
                                  FALSE, FALSE, <<>>),
                             AddStoreOps(blacklist, u, g, r, ok1))
        /\ UNCHANGED <<welcome, lastNotif, clock, ticks, pending, sent>>
        /\ UNCHANGED <<permVars, reqVars, departed>>

AdminRemove(u, g, ok1, ok2) ==
    LET a == remove_user_from_blacklist(blacklist, u, g, ok1, ok2)
    IN  /\ a[2]
        /\ blacklist' = a[1]
        /\ last' = WithStore(Step("remove", g, u, NULL, FALSE, FALSE, FALSE, TRUE, TRUE,
                                  FALSE, FALSE, <<>>),
                             {"is_in_blacklist", "remove_from_blacklist"})
        /\ UNCHANGED <<welcome, lastNotif, clock, ticks, pending, sent>>
        /\ UNCHANGED <<permVars, reqVars>>
        /\ departed' = {d \in departed : d[1] # u}

\* a direct call of SunosDatabase.add_to_blacklist; sub holds the reason given
DbAdd(u, by, g, r, ok) ==
    LET a == add_to_blacklist(blacklist, u, by, g, r, ok)
    IN  /\ BagCardinality(a[1]) <= MaxRows
        /\ blacklist' = a[1]
        /\ last' = WithStore(Step("db_add", g, u, r, FALSE, FALSE, FALSE, TRUE, a[2],
                                  FALSE, FALSE, <<>>),
                             {"add_to_blacklist"})
        /\ UNCHANGED <<welcome, lastNotif, clock, ticks, pending, sent>>
        /\ UNCHANGED <<permVars, reqVars, departed>>

\* a direct call of SunosDatabase.remove_from_blacklist
DbRemove(u, g, ok) ==
    LET a == remove_from_blacklist(blacklist, u, g, ok)
    IN  /\ blacklist' = a[1]
        /\ last' = WithStore(Step("db_remove", g, u, NULL, FALSE, FALSE, FALSE, TRUE, a[2],
                                  FALSE, FALSE, <<>>),
                             {"remove_from_blacklist"})
        /\ UNCHANGED <<welcome, lastNotif, clock, ticks, pending, sent>>
        /\ UNCHANGED <<permVars, reqVars>>
        /\ departed' = IF a[2] THEN {d \in departed : d[1] # u} ELSE departed

\* time passes between two steps
Tick(d) ==
    /\ ticks < MaxTicks
    /\ ticks' = ticks + 1
    /\ clock' = clock + d
    /\ last' = NoStep
    /\ lastPerm' = NoCheck
    /\ UNCHANGED <<blacklist, welcome, lastNotif, pending, sent, departed>>
    /\ UNCHANGED <<permCache, permStamps, cacheLock, resolving, liveCalls, lastCmd>>
    /\ UNCHANGED reqVars

EventUsers == Users \cup {"a1"}
Platforms == {"aiocqhttp", "webchat"}
RoleResponses == {"owner", "admin", "member", "empty", "raise"}
AdminReasons == {"spam", ""}
Delays == {Cooldown - 1, Cooldown}

\* the stores and the throttle after SunosDatabase and NotificationManager
\* are constructed; group 333 has a welcome template
InitPipeline ==
    /\ blacklist = EmptyBag
    /\ welcome = [g \in Groups |-> IF g = "333" THEN <<"Hi", " ", "{user}">> ELSE NoTemplate]
    /\ lastNotif = <<>>
    /\ clock = StartTime
    /\ ticks = 0
    /\ pending = EmptyBag
    /\ last = NoStep
    /\ sent = [k \in NotifKeys |-> <<>>]
    /\ departed = {}

\* PermissionManager.__init__
InitPermissions ==
    /\ permCache = <<>>
    /\ permStamps = <<>>
    /\ cacheLock = RLockFree
    /\ resolving = EmptyBag
    /\ liveCalls = [k \in {CacheKey(PermGroup, u) : u \in PermUsers} |-> <<>>]
    /\ lastPerm = NoCheck
    /\ lastCmd = NoCmd

Init ==
    /\ InitPipeline
    /\ InitPermissions
    /\ InitAdapter(DefaultMaxRetries)

\* The events are those of one group; the other group is a scope of
\* blacklist rows only
EventGroup == "333"

\* Joins with a failing or working store and every platform answer, while
\* administrators add and remove blacklist rows
NextJoin ==
    \/ \E u \in EventUsers, p \in Platforms, ok1, ok2, inst \in BOOLEAN :
          JoinStart(EventGroup, u, p, ok1, ok2, inst)
    \/ \E p \in InFlight, resp \in RoleResponses, inst \in BOOLEAN :
          BotRoleReturn(p, resp, inst)
    \/ \E p \in InFlight, ok \in BOOLEAN : KickReturn(p, ok)
    \/ \E u \in Users, by \in AdminIds, g \in Groups \cup {NULL}, r \in AdminReasons,
          ok1, ok2 \in BOOLEAN : AdminAdd(u, by, g, r, ok1, ok2)
    \/ \E u \in Users, g \in Groups \cup {NULL}, ok1, ok2 \in BOOLEAN :
          AdminRemove(u, g, ok1, ok2)

SpecJoin == Init /\ [][NextJoin]_vars

\* Joins that run to their end without a platform call, while administrators
\* add rows of either scope with one of two reasons
ScopeReasons == {"spam", "flood"}

NextScopes ==
    \/ \E u \in Users, ok1, ok2 \in BOOLEAN :
          JoinStart(EventGroup, u, "webchat", ok1, ok2, TRUE)
    \/ \E u \in Users, by \in AdminIds, g \in Groups \cup {NULL}, r \in ScopeReasons,
          ok1, ok2 \in BOOLEAN : AdminAdd(u, by, g, r, ok1, ok2)
    \/ \E u \in Users, g \in Groups \cup {NULL}, ok1, ok2 \in BOOLEAN :
          AdminRemove(u, g, ok1, ok2)

SpecScopes == Init /\ [][NextScopes]_vars

\* Joins of users who are not blacklisted, the group having any template
TemplatePieces == {"{user}", "{group}", "Hi", " "}

RECURSIVE SeqsUpTo(_, _)
SeqsUpTo(S, n) ==
    IF n = 0 THEN {<<>>}
    ELSE LET shorter == SeqsUpTo(S, n - 1)
         IN  shorter \cup {Append(q, x) : q \in shorter, x \in S}

Templates == SeqsUpTo(TemplatePieces, MaxTemplateLen)

InitWelcome ==
    /\ blacklist = EmptyBag
    /\ welcome \in {[g \in Groups |-> IF g = EventGroup THEN t ELSE NoTemplate] :
                      t \in Templates}
    /\ lastNotif = <<>>
    /\ clock = StartTime
    /\ ticks = 0
    /\ pending = EmptyBag
    /\ last = NoStep
    /\ sent = [k \in NotifKeys |-> <<>>]
    /\ departed = {}
    /\ InitPermissions
    /\ InitAdapter(DefaultMaxRetries)

NextWelcome ==
    \E u \in EventUsers, ok1 \in BOOLEAN :
        JoinStart(EventGroup, u, "webchat", ok1, TRUE, TRUE)

SpecWelcome == InitWelcome /\ [][NextWelcome]_vars

\* The same, with events whose processing raises
NextFault ==
    \/ NextJoin
    \/ \E u \in EventUsers : EventRaises(EventGroup, u)
    \/ \E u \in EventUsers, ok1 \in BOOLEAN : JoinWelcomeRaises(EventGroup, u, ok1)

SpecFault == Init /\ [][NextFault]_vars

\* Departures with a failing or working store, while administrators add and
\* remove blacklist rows
NextLeave ==
    \/ \E u \in EventUsers, raw \in RawSubTypes, ok1, ok2, ok3 \in BOOLEAN :
          Leave(EventGroup, u, raw, ok1, ok2, ok3)
    \/ \E u \in Users, by \in AdminIds, g \in Groups \cup {NULL}, r \in AdminReasons,
          ok1, ok2 \in BOOLEAN : AdminAdd(u, by, g, r, ok1, ok2)
    \/ \E u \in Users, g \in Groups \cup {NULL}, ok1, ok2 \in BOOLEAN :
          AdminRemove(u, g, ok1, ok2)

SpecLeave == Init /\ [][NextLeave]_vars

\* Departures with a failing or working store, joins with a working store
\* and every platform answer, while administrators remove blacklist rows
NextRejoin ==
    \/ \E u \in EventUsers, raw \in RawSubTypes, ok1, ok2, ok3 \in BOOLEAN :
          Leave(EventGroup, u, raw, ok1, ok2, ok3)
    \/ \E u \in EventUsers, p \in Platforms :
          JoinStart(EventGroup, u, p, TRUE, TRUE, TRUE)
    \/ \E p \in InFlight, resp \in {"admin", "member"} : BotRoleReturn(p, resp, TRUE)
    \/ \E p \in InFlight, ok \in BOOLEAN : KickReturn(p, ok)
    \/ \E u \in Users, g \in Groups \cup {NULL}, ok1, ok2 \in BOOLEAN :
          AdminRemove(u, g, ok1, ok2)

SpecRejoin == Init /\ [][NextRejoin]_vars

\* The throttle under load: a globally blacklisted user joins and leaves the
\* groups while time passes; the store works
InitThrottle ==
    /\ blacklist = SetToBag({Row("222", NULL, "spam", "9001")})
    /\ welcome = [g \in Groups |-> NoTemplate]
    /\ lastNotif = <<>>
    /\ clock = StartTime
    /\ ticks = 0
    /\ pending = EmptyBag
    /\ last = NoStep
    /\ sent = [k \in NotifKeys |-> <<>>]
    /\ departed = {}
    /\ InitPermissions
    /\ InitAdapter(DefaultMaxRetries)

NextThrottle ==
    \/ JoinStart(EventGroup, "222", "aiocqhttp", TRUE, TRUE, TRUE)
    \/ \E p \in InFlight, resp \in {"admin", "member"} : BotRoleReturn(p, resp, TRUE)
    \/ \E p \in InFlight, ok \in BOOLEAN : KickReturn(p, ok)
    \/ Leave(EventGroup, "222", "leave", TRUE, TRUE, TRUE)
    \/ \E d \in Delays : Tick(d)

SpecThrottle == InitThrottle /\ [][NextThrottle]_vars

\* The throttle keys of two groups: the blacklisted user joins and leaves
\* either group, on a platform without kick support, while time passes
NextKeys ==
    \/ \E g \in Groups : JoinStart(g, "222", "webchat", TRUE, TRUE, TRUE)
    \/ \E g \in Groups : Leave(g, "222", "leave", TRUE, TRUE, TRUE)
    \/ \E d \in Delays : Tick(d)

SpecKeys == InitThrottle /\ [][NextKeys]_vars

\* Every kind of event: joins of a blacklisted and of another user on either
\* platform, departures, events that are not routed, with a blacklist check
\* that may fail, while time passes
NoticeTypes == {"group_increase", "group_decrease", "group_ban", NULL}

NextEvents ==
    \/ \E u \in EventUsers, p \in Platforms, ok1 \in BOOLEAN :
          JoinStart(EventGroup, u, p, ok1, TRUE, TRUE)
    \/ \E p \in InFlight, resp \in {"admin", "member"} : BotRoleReturn(p, resp, TRUE)
    \/ \E p \in InFlight, ok \in BOOLEAN : KickReturn(p, ok)
    \/ \E u \in EventUsers, raw \in {"leave", "kick_me", NULL} :
          Leave(EventGroup, u, raw, TRUE, TRUE, TRUE)
    \/ \E g \in {EventGroup, ""}, n \in NoticeTypes, u \in {"222", NULL} :
          EventIgnored(g, n, u)
    \/ \E d \in Delays : Tick(d)

SpecEvents == Init /\ [][NextEvents]_vars

\* Calls of the store by any caller, with a working or failing database
StoreReasons == {"spam", "flood", ""}

NextStore ==
    \/ \E u \in Users, by \in AdminIds \cup {SYSTEM_AUTO}, g \in Groups \cup {NULL},
          r \in StoreReasons, ok \in BOOLEAN : DbAdd(u, by, g, r, ok)
    \/ \E u \in Users, g \in Groups \cup {NULL}, ok \in BOOLEAN : DbRemove(u, g, ok)

SpecStore == Init /\ [][NextStore]_vars

\* ------------------------------------------------------------------------
\* Permission checks
\* ------------------------------------------------------------------------
StaticMeta == MetaOf("9001", {"222"})

\* the command events of the model
PermEvents ==
    {Event("222", PermGroup, "member", p, TRUE, m) :
        p \in Platforms, m \in {NoMeta, StaticMeta}}
    \cup {Event("555", PermGroup, "member", "webchat", TRUE, NoMeta),
          Event("222", PermGroup, "admin", "aiocqhttp", TRUE, NoMeta),
          Event("222", "", "member", "aiocqhttp", TRUE, StaticMeta),
          Event("", PermGroup, "member", "aiocqhttp", TRUE, StaticMeta),
          Event("222", PermGroup, "member", "aiocqhttp", FALSE, StaticMeta)}

PermDelays == {CacheTtl - 1, CacheTtl}

NextPerm ==
    \/ \E e \in PermEvents : CheckAsync(e) /\ UNCHANGED <<evtVars, reqVars, lastCmd>>
    \/ \E r \in Resolving, resp \in RoleResponses : ApiReturn(r, resp) /\ UNCHANGED <<evtVars, reqVars, lastCmd>>
    \/ \E d \in PermDelays : Tick(d)

SpecPerm == Init /\ [][NextPerm]_vars

\* The checks of the events that reach the live lookup
LookupEvents == {e \in PermEvents : LiveLookupPossible(e) /\ e.role # "admin"}

NextLookup ==
    \/ \E e \in LookupEvents : CheckAsync(e) /\ UNCHANGED <<evtVars, reqVars, lastCmd>>
    \/ \E r \in Resolving, resp \in RoleResponses : ApiReturn(r, resp) /\ UNCHANGED <<evtVars, reqVars, lastCmd>>
    \/ \E d \in PermDelays : Tick(d)

SpecLookup == Init /\ [][NextLookup]_vars

\* The checks that use, fill and purge the cache, and those that end before
\* the cache: system administrators and events without a group
CacheEvents ==
    LookupEvents
    \cup {e \in PermEvents : e.role = "admin" \/ e.group = ""}
    \cup {e \in PermEvents : e.sender = "555"}

NextCache ==
    \/ \E e \in CacheEvents : CheckAsync(e) /\ UNCHANGED <<evtVars, reqVars, lastCmd>>
    \/ \E r \in Resolving, resp \in {"admin", "member"} :
          ApiReturn(r, resp) /\ UNCHANGED <<evtVars, reqVars, lastCmd>>
    \/ \E d \in PermDelays : Tick(d)

SpecCache == Init /\ [][NextCache]_vars

\* The cache under two users: one resolved by the live lookup, one by the
\* static metadata, with overlapping resolutions and time passing
EvictEvents ==
    {Event("222", PermGroup, "member", "aiocqhttp", TRUE, NoMeta),
     Event("555", PermGroup, "member", "webchat", TRUE, NoMeta)}

NextEvict ==
    \/ \E e \in EvictEvents : CheckAsync(e) /\ UNCHANGED <<evtVars, reqVars, lastCmd>>
    \/ \E r \in Resolving, resp \in {"admin", "member"} :
          ApiReturn(r, resp) /\ UNCHANGED <<evtVars, reqVars, lastCmd>>
    \/ \E d \in PermDelays : Tick(d)

SpecEvict == Init /\ [][NextEvict]_vars

\* Decorated commands of system administrators, group administrators and
\* other members
GateEvents == CacheEvents \cup {e \in PermEvents : e.meta = StaticMeta}

NextGate ==
    \/ \E e \in GateEvents : super_admin_required(e) /\ UNCHANGED <<evtVars, reqVars>>
    \/ \E e \in GateEvents : admin_required(e) /\ UNCHANGED <<evtVars, reqVars>>
    \/ \E r \in Resolving, resp \in {"admin", "member", "raise"} :
          admin_required_resume(r, resp) /\ UNCHANGED <<evtVars, reqVars>>

SpecGate == Init /\ [][NextGate]_vars

\* ------------------------------------------------------------------------
\* Requests of the OneBot client
\* ------------------------------------------------------------------------
RetryConfigs == 0..DefaultMaxRetries

Bodies ==
    {Body("json", "ok", TRUE, 0), Body("json", "failed", TRUE, 100),
     Body("json", "ok", TRUE, 100), Body("json", Missing, TRUE, 0),
     Body("json", "ok", FALSE, 0), Body("nojson", Missing, FALSE, 0), EmptyBody,
     Body("jsonvalue", Missing, FALSE, 0),
     WithMessage(Body("json", "failed", TRUE, 100), "no permission"),
     WithMessage(Body("json", "ok", TRUE, 0), "done"),
     WithMessage(Body("json", Missing, FALSE, 0), "bad request")}

ErrorStatuses == {400, 404, 500, 503}

Responses ==
    {Http(200, b) : b \in Bodies}
    \cup {Http(st, EmptyBody) : st \in ErrorStatuses}
    \cup {NetFail(k) : k \in {"connect", "timeout", "client"}}

InitReq ==
    /\ InitPipeline
    /\ InitPermissions
    /\ \E n \in RetryConfigs : InitAdapter(n)

NextReq ==
    \/ Enter /\ UNCHANGED <<evtVars, permVars, clock, ticks>>
    \/ MakeRequest /\ UNCHANGED <<evtVars, permVars, clock, ticks>>
    \/ \E resp \in Responses : Respond(resp) /\ UNCHANGED <<evtVars, permVars, clock, ticks>>
    \/ Wake /\ UNCHANGED <<evtVars, permVars, clock, ticks>>
    \/ CloseStart /\ UNCHANGED <<evtVars, permVars, clock, ticks>>
    \/ CloseFinish /\ UNCHANGED <<evtVars, permVars, clock, ticks>>

SpecReq == InitReq /\ [][NextReq]_vars

\* ------------------------------------------------------------------------
\* Properties of the event pipeline
\* ------------------------------------------------------------------------
JoinOps == {"join", "join_resume"}

\* the table holds a global row of u or a row of u scoped to g
HasEntry(tbl, u, g) == RowsOf(tbl, u, NULL) # {} \/ RowsOf(tbl, u, g) # {}

Spaced(times) ==
    \A i, j \in 1..Len(times) : i < j => times[j] - times[i] >= Cooldown

\* C1: a join whose blacklist check returned True yields no welcome message,
\* neither the group's template nor the default greeting, in any step of its
\* handler and whether the kick succeeded or failed.
C1_NoWelcomeForBlacklisted ==
    (last.op \in JoinOps /\ last.checked) => Kinds(last.out) \cap WelcomeKinds = {}

\* a blacklisted join whose set_group_kick was issued and raised has finished
C1_Witness ==
    /\ last.op = "join_resume"
    /\ last.checked /\ last.kickIssued /\ last.finished /\ ~last.success

\* C2: for every notification key, the calls of should_send_notification that
\* returned True are pairwise at least Cooldown apart, and a blacklisted join
\* emits its notification exactly when its call returned True, so the joins
\* inside one window emit one notification.
C2_OncePerWindow ==
    /\ \A k \in NotifKeys : Spaced(sent[k])
    /\ (last.op \in JoinOps /\ last.finished /\ last.checked)
          => (last.notified <=> Len(last.out) = 1)

\* two notifications of the join key were emitted and a later join inside the
\* second window was suppressed
C2_Witness ==
    /\ Len(sent[JoinKey(EventGroup)]) >= 2
    /\ last.op \in JoinOps /\ last.notifyCalled /\ ~last.notified

\* C5: a call of should_send_notification that returns True finds the
\* cooldown elapsed and records the current time for its key in the same
\* step, also while other handlers of the same key are suspended in their
\* kick call: the table always holds the time of the latest True.
C5_AtomicClaim ==
    [][\A k \in NotifKeys :
          sent'[k] # sent[k] =>
             /\ CooldownElapsed(clock, LastTime(lastNotif, k))
             /\ sent'[k] = Append(sent[k], clock)
             /\ k \in DOMAIN lastNotif'
             /\ lastNotif'[k] = clock
             /\ Spaced(sent'[k])]_vars

\* a resumed join handler was suppressed while another join handler of the
\* same group is still suspended and the slot was claimed at this very time
C5_Witness ==
    /\ last.op = "join_resume" /\ last.notifyCalled /\ ~last.notified
    /\ \E p \in InFlight : p.group = last.group
    /\ sent[JoinKey(last.group)] # <<>>
    /\ sent[JoinKey(last.group)][Len(sent[JoinKey(last.group)])] = clock

\* the key of the should_send_notification call of a handler step
KeyOfStep(step) ==
    IF step.op = "leave" THEN LeaveKey(step.group) ELSE JoinKey(step.group)

\* the time of the last emission of a key, 0 for a key that never emitted
LastEmission(tbl, key) == IF key \in DOMAIN tbl THEN tbl[key] ELSE 0

\* C34: a handler step that calls should_send_notification gets True
\* exactly when the current time is at least Cooldown past the last emission
\* of its key (0 for a key that never emitted); on True the table holds the
\* current time for the key; the first call of a key gets True, and so does
\* a call at or after the last emission plus Cooldown.
C34_TrueIffCooldownElapsed ==
    [][last'.notifyCalled =>
          LET k == KeyOfStep(last')
              before == LastEmission(lastNotif, k)
          IN  /\ last'.notified <=> (clock - before >= Cooldown)
              /\ last'.notified => (k \in DOMAIN lastNotif' /\ lastNotif'[k] = clock)
              /\ k \notin DOMAIN lastNotif => last'.notified
              /\ clock >= before + Cooldown => last'.notified]_vars

\* a departure exactly Cooldown after the last departure notification of the
\* group was notified
C34_Witness ==
    /\ last.op = "leave" /\ last.notifyCalled /\ last.notified
    /\ Len(sent[LeaveKey(last.group)]) = 2
    /\ sent[LeaveKey(last.group)][2] = sent[LeaveKey(last.group)][1] + Cooldown
    /\ lastNotif[LeaveKey(last.group)] = clock

\* C35: the last-emission table changes only in a step that calls
\* should_send_notification and gets True, and then only at the key of that
\* step; a suppressed call leaves the whole table as it was.
C35_OnlyOwnKeyOnTrue ==
    [][/\ \A k \in NotifKeys :
             (k \in DOMAIN lastNotif' /\ (k \notin DOMAIN lastNotif \/ lastNotif'[k] # lastNotif[k]))
                => /\ last'.notifyCalled /\ last'.notified
                   /\ k = KeyOfStep(last')
       /\ DOMAIN lastNotif \subseteq DOMAIN lastNotif'
       /\ (last'.notifyCalled /\ ~last'.notified) => lastNotif' = lastNotif]_vars

\* a departure was suppressed inside the window of its key while the same
\* class of the other group and the join key of its own group hold other
\* times
C35_Witness ==
    /\ last.op = "leave" /\ last.notifyCalled /\ ~last.notified
    /\ \E g \in Groups \ {last.group} :
          /\ LeaveKey(g) \in DOMAIN lastNotif
          /\ lastNotif[LeaveKey(g)] # lastNotif[LeaveKey(last.group)]
    /\ JoinKey(last.group) \in DOMAIN lastNotif
    /\ clock > lastNotif[LeaveKey(last.group)]

\* C21 (as claimed): a join of a user who has a global row and a row scoped
\* to the group joined, the lookup of the row having worked, reports the
\* reason of a global row.
C21_GlobalReasonWins ==
    (/\ last.op = "join" /\ last.finished /\ last.checked /\ last.notified
     /\ last.out[1].reason # ""
     /\ RowsOf(blacklist, last.user, NULL) # {}
     /\ RowsOf(blacklist, last.user, last.group) # {})
        => \E row \in RowsOf(blacklist, last.user, NULL) :
               last.out[1].reason = JoinReason(row)

\* C22 (as claimed): once a departure other than kick_me of a numeric user
\* has been handled with a working store, every join of that user into that
\* group is answered with a kick attempt and no welcome message, as long as
\* no row of the user has been removed since.
C22_RejoinRejected ==
    [][(last'.op = "join" /\ <<last'.user, last'.group>> \in departed) =>
          /\ last'.checked
          /\ last'.kickCalled
          /\ Kinds(last'.out) \cap WelcomeKinds = {}]_vars

\* C23 (as claimed): after a departure other than kick_me of a numeric user
\* whose blacklist check found the user listed or whose insert succeeded,
\* the table holds a row of the user scoped to the group, also when the
\* user had a global row and no row of the group before.
C23_ScopedRowAfterLeave ==
    [][(/\ last'.op = "leave"
        /\ last'.sub # "kick_me"
        /\ IsDigit(last'.user)
        /\ (last'.checked \/ last'.success))
          => RowsOf(blacklist', last'.user, last'.group) # {}]_vars

\* the table keeps every row it held, in at least as many copies
KeepsRows(before, after) ==
    \A row \in DOMAIN before : row \in DOMAIN after /\ after[row] >= before[row]

\* C32 (as claimed): a step of a join leaves the table as it was; a step of
\* a departure keeps every row the table held, unchanged; and a row leaves
\* the table only in a step of an explicit removal.
C32_RowsLeaveOnlyByRemoval ==
    [][/\ last'.op \in JoinOps => blacklist' = blacklist
       /\ last'.op = "leave" => KeepsRows(blacklist, blacklist')
       /\ ~KeepsRows(blacklist, blacklist') => last'.op \in {"remove", "db_remove"}]_vars

\* C33: the outcome a departure notification carries matches the store:
\* "added" only when add_to_blacklist was called and the table then holds
\* the row (user, group, reason of the sub_type, system_auto) as the only row
\* of that pair; "already" only when the table held a global row or a row of
\* the group before the event and the event called no insert and changed
\* nothing; and when the handler found no entry and the insert was rejected
\* (not called) or left the row absent, the outcome is the failure text,
\* which never comes with a changed table.
C33_OutcomeMatchesStore ==
    [][(last'.op = "leave" /\ last'.out # <<>>) =>
          LET o == last'.out[1].reason
              u == last'.user
              g == last'.group
              row == Row(u, g, LeaveReason(last'.sub), SYSTEM_AUTO)
          IN  /\ o \in {"added", "already", "failed"}
              /\ o = "added" =>
                    /\ "add_to_blacklist" \in last'.store
                    /\ RowsOf(blacklist', u, g) = {row}
                    /\ blacklist'[row] = 1
              /\ o = "already" =>
                    /\ HasEntry(blacklist, u, g)
                    /\ "add_to_blacklist" \notin last'.store
                    /\ blacklist' = blacklist
              /\ (/\ ~last'.checked
                  /\ \/ "add_to_blacklist" \notin last'.store
                     \/ row \notin Rows(blacklist'))
                    => o = "failed"
              /\ o = "failed" => blacklist' = blacklist]_vars

\* a departure whose insert was called and failed was reported as a failure
C33_Witness ==
    /\ last.op = "leave"
    /\ last.out # <<>>
    /\ last.out[1].reason = "failed"
    /\ "add_to_blacklist" \in last.store
    /\ RowsOf(blacklist, last.user, last.group) = {}

\* C19 (as claimed): every blacklisted join whose kick attempt failed emits
\* the notification of the failed kick, carrying the failure reason, whatever
\* joins and notifications came before it in the group.
C19_FailedKickAlwaysReported ==
    (last.op \in JoinOps /\ last.finished /\ last.checked /\ ~last.success) =>
        \E i \in 1..Len(last.out) :
            /\ last.out[i].kind = "blacklist_kick_failed"
            /\ last.out[i].error # ""

\* C9 (as claimed): a join is answered with a kick attempt exactly when the
\* table holds a global row of the user or a row scoped to the group joined,
\* and with a welcome message otherwise.
C9_KickIffEntry ==
    [][last'.op = "join" =>
          /\ last'.kickCalled <=> HasEntry(blacklist, last'.user, last'.group)
          /\ ~HasEntry(blacklist, last'.user, last'.group)
                => Kinds(last'.out) \cap WelcomeKinds # {}]_vars

\* C10 (as claimed): a departure other than kick_me of a numeric user without
\* a global row and without a row of the group adds exactly the row
\* (user, group, reason of the sub_type, system_auto) and changes nothing else.
C10_ExactlyOneRowAdded ==
    [][(/\ last'.op = "leave"
        /\ last'.sub # "kick_me"
        /\ IsDigit(last'.user)
        /\ ~HasEntry(blacklist, last'.user, last'.group))
          => blacklist' = blacklist (+) SetToBag({Row(last'.user, last'.group,
                  IF last'.sub = "leave" THEN "ZDTQ"
                  ELSE IF last'.sub = "kick" THEN "BTCQ"
                  ELSE "LKQL(" \o last'.sub \o ")", SYSTEM_AUTO)})]_vars

\* C11: a departure with sub_type kick_me performs no store operation, does
\* not call should_send_notification, leaves the blacklist and the cooldown
\* table as they were and emits no message.
C11_BotKickedDoesNothing ==
    [][(last'.op = "leave" /\ last'.sub = "kick_me") =>
          /\ last'.store = {}
          /\ ~last'.notifyCalled
          /\ ~last'.notified
          /\ last'.out = <<>>
          /\ blacklist' = blacklist
          /\ lastNotif' = lastNotif
          /\ sent' = sent]_vars

\* a kick_me departure was handled in a group whose leave key already has a
\* cooldown entry and whose blacklist is not empty
C11_Witness ==
    /\ last.op = "leave" /\ last.sub = "kick_me" /\ last.finished
    /\ LeaveKey(last.group) \in DOMAIN lastNotif
    /\ blacklist # EmptyBag

\* C12 (as claimed): after any sequence of add_to_blacklist and
\* remove_from_blacklist calls the table holds at most one row for each
\* (user_id, group_id), the global pair (user_id, NULL) included.
C12_OneRowPerPair ==
    \A r1, r2 \in Rows(blacklist) :
        /\ blacklist[r1] = 1
        /\ (r1.user_id = r2.user_id /\ r1.group_id = r2.group_id) => r1 = r2

\* C13 (as claimed): a second insert of a (user_id, group_id) right after a
\* first one adds no row: the pair keeps one row, which carries the reason
\* and the author of the second insert, and the other rows stay as they were.
C13_UpsertIdempotent ==
    [][(/\ last.op = "db_add" /\ last.success
        /\ last'.op = "db_add" /\ last'.success
        /\ last'.user = last.user /\ last'.group = last.group)
          => /\ BagCardinality(blacklist') = BagCardinality(blacklist)
             /\ \A row \in Rows(blacklist') :
                   (row.user_id = last'.user /\ row.group_id = last'.group)
                      => row.reason = last'.sub /\ blacklist'[row] = 1
             /\ \A row \in Rows(blacklist) :
                   (row.user_id # last'.user \/ row.group_id # last'.group)
                      => row \in Rows(blacklist') /\ blacklist'[row] = blacklist[row]]_vars

\* C17: an exception raised while an event is processed is caught at
\* handle_group_events and not propagated; the failed event ends, leaves no
\* suspended handler behind and changes neither the stores nor the throttle,
\* so the events after it are processed as if it had never come.
C17_FailureContained ==
    [][(last'.caught \/ last'.propagated) =>
          /\ ~last'.propagated
          /\ last'.finished
          /\ last'.out = <<>>
          /\ pending' = pending
          /\ blacklist' = blacklist
          /\ lastNotif' = lastNotif]_vars

\* a join failed while building its welcome although a join handler of the
\* same group is still suspended in its kick
C17_Witness ==
    /\ last.op = "join" /\ last.caught /\ last.finished
    /\ \E p \in InFlight : p.group = last.group

\* the last step was a join that yielded the chain built from the template
\* of its group
Rendered ==
    /\ last.op = "join" /\ last.finished
    /\ Len(last.out) = 1 /\ last.out[1].kind = "welcome"

RenderedChain == last.out[1].chain
RenderedTemplate == welcome[last.group]

Occurrences(tpl) == Cardinality({i \in 1..Len(tpl) : tpl[i] = "{user}"})
Mentions(chain) == Cardinality({i \in 1..Len(chain) : chain[i].type = "At"})

\* the chain read as a template again: "{user}" for a mention, its text
\* for a text element
RECURSIVE ReadBack(_)
ReadBack(chain) ==
    IF chain = <<>> THEN <<>>
    ELSE (IF Head(chain).type = "At" THEN <<"{user}">> ELSE Head(chain).text)
         \o ReadBack(Tail(chain))

IsVisible(piece) == piece \notin {" ", ""}
Visible(pieces) == SelectSeq(pieces, IsVisible)

\* the template has no {user} and no text but white space
Collapses(tpl, group_id) == Visible(replace_group(tpl, group_id)) = <<>>

\* the chain has no empty text, a mention of the user for each {user}, no
\* {group} left, and the mentions and the visible text in template order
FollowsTemplate(chain, tpl, user_id, group_id) ==
    /\ \A i \in 1..Len(chain) : chain[i].type = "Plain" => chain[i].text # <<>>
    /\ \A i \in 1..Len(chain) : chain[i].type = "At" => chain[i].qq = user_id
    /\ Mentions(chain) = Occurrences(tpl)
    /\ \A i \in 1..Len(chain) : \A j \in 1..Len(chain[i].text) :
           chain[i].text[j] # "{group}"
    /\ Visible(ReadBack(chain)) = Visible(replace_group(tpl, group_id))
    /\ tpl = <<"{user}">> => chain = <<At(user_id)>>

\* C20 (as claimed): for every template the chain built has no empty text
\* element, one mention per {user} at its place, the group id for every
\* {group} and the text in template order.
C20_ChainFollowsTemplate ==
    Rendered => FollowsTemplate(RenderedChain, RenderedTemplate, last.user, last.group)

\* C20 (amended): the same for every template that has a {user} or some
\* text that is not white space, and no text element of the chain is white
\* space only; any other template yields the default chain, a mention
\* followed by the default greeting.
C20_ChainFollowsTemplateOrDefault ==
    Rendered =>
        IF Collapses(RenderedTemplate, last.group)
        THEN RenderedChain = DefaultChain(last.user)
        ELSE /\ FollowsTemplate(RenderedChain, RenderedTemplate, last.user, last.group)
             /\ \A i \in 1..Len(RenderedChain) :
                    RenderedChain[i].type = "Plain" => Visible(RenderedChain[i].text) # <<>>

\* a template of white space was rendered as the default chain
C20_Witness ==
    /\ Rendered
    /\ RenderedTemplate = <<" ", " ">>
    /\ RenderedChain = DefaultChain(last.user)

\* C28: a join of a user who is not blacklisted into a group without a
\* template, or with a template that has no {user} and no text but white
\* space, yields one message: a mention of the user followed by the default
\* greeting.
C28_DefaultGreeting ==
    (/\ last.op = "join" /\ last.finished /\ ~last.checked
     /\ Collapses(welcome[last.group], last.group))
        => /\ Len(last.out) = 1
           /\ last.out[1].kind \in WelcomeKinds
           /\ last.out[1].chain =
                 << [type |-> "At", qq |-> last.user, text |-> <<>>],
                    [type |-> "Plain", qq |-> "", text |-> <<" ", "HYJRQL!">>] >>

\* a user joined a group that has no template and got the default greeting
C28_Witness ==
    /\ last.op = "join" /\ last.finished /\ ~last.checked
    /\ welcome[last.group] = NoTemplate
    /\ Len(last.out) = 1
    /\ last.out[1].kind = "default_welcome"
    /\ Len(last.out[1].chain) = 2

\* C29: no step of an event yields more than one message; a blacklisted
\* join yields at most the blacklist notification, and only when it ends; a
\* join of a user the check lets through yields exactly one welcome
\* message; a departure yields at most one departure notification and none
\* for kick_me; an event that is not routed yields nothing.
C29_AtMostOneMessage ==
    /\ Len(last.out) <= 1
    /\ (last.op \in JoinOps /\ last.checked) =>
          /\ Kinds(last.out) \subseteq {"blacklist_kicked", "blacklist_kick_failed"}
          /\ ~last.finished => last.out = <<>>
    /\ (last.op = "join" /\ ~last.checked) =>
          /\ last.finished
          /\ Len(last.out) = 1
          /\ last.out[1].kind \in WelcomeKinds
    /\ last.op = "leave" =>
          /\ Kinds(last.out) \subseteq {"member_left"}
          /\ last.sub = "kick_me" => last.out = <<>>
    /\ last.op = "ignored" => last.out = <<>>

\* a join of a user who is not blacklisted yielded its welcome message while
\* a blacklisted join of the same group is suspended in its kick
C29_Witness ==
    /\ last.op = "join" /\ ~last.checked /\ Len(last.out) = 1
    /\ \E p \in InFlight : p.group = last.group /\ p.pc = "kick"

\* C30: a blacklisted join calls should_send_notification, claims the slot
\* of its key and yields its notification only in the step in which its kick
\* attempt has returned, the outcome of the kick being in the notification,
\* and does none of these while it is suspended; a departure claims its slot
\* and yields its notification in the step in which the blacklist check and
\* insert have returned, the outcome of the insert being in the notification.
C30_StepsInOrder ==
    [][/\ (last'.op \in JoinOps /\ last'.checked) =>
             IF last'.finished
             THEN /\ last'.kickCalled /\ last'.notifyCalled
                  /\ BagCardinality(pending') =
                        BagCardinality(pending) - (IF last'.op = "join_resume" THEN 1 ELSE 0)
                  /\ last'.notified =>
                        /\ last'.out # <<>>
                        /\ last'.out[1].kind =
                              (IF last'.success THEN "blacklist_kicked"
                               ELSE "blacklist_kick_failed")
             ELSE /\ ~last'.notifyCalled /\ ~last'.notified
                  /\ last'.out = <<>>
                  /\ lastNotif' = lastNotif
                  /\ sent' = sent
       /\ (last'.op = "leave" /\ last'.notified) =>
             /\ last'.finished
             /\ last'.out # <<>>
             /\ last'.out[1].reason = "added" <=> blacklist' # blacklist
             /\ last'.out[1].reason = "already" =>
                   HasEntry(blacklist, last'.user, last'.group)]_vars

\* a join handler resumed after its kick had been issued, claimed the slot
\* and yielded the notification of the successful kick
C30_Witness ==
    /\ last.op = "join_resume" /\ last.kickIssued /\ last.finished /\ last.success
    /\ last.notified /\ Len(last.out) = 1
    /\ lastNotif[JoinKey(last.group)] = clock

\* C36: every finished join that found the user blacklisted has called
\* kick_user_from_group, and every departure other than kick_me of a numeric
\* user without an entry, its reason within the length limit, has called
\* add_to_blacklist, whether or not the notification of the step was
\* suppressed.
C36_ThrottleSparesActions ==
    [][/\ (last'.op \in JoinOps /\ last'.finished /\ last'.checked) => last'.kickCalled
       /\ (/\ last'.op = "leave" /\ last'.sub # "kick_me"
           /\ ~HasEntry(blacklist, last'.user, last'.group)
           /\ validate_user_id(last'.user)
           /\ validate_input_length(LeaveReason(last'.sub), ReasonMaxLen))
             => /\ last'.notifyCalled
                /\ "add_to_blacklist" \in last'.store]_vars

\* a departure inside the cooldown window of its key was not notified and
\* added the row of the user
C36_Witness ==
    /\ last.op = "leave" /\ last.notifyCalled /\ ~last.notified
    /\ "add_to_blacklist" \in last.store
    /\ RowsOf(blacklist, last.user, last.group) # {}
    /\ clock - lastNotif[LeaveKey(last.group)] < Cooldown

\* C37: the step of kick_user_from_group that issues set_group_kick follows
\* a lookup, made by the same call, that reported the role owner or admin,
\* for an event with a group id; a call is suspended in that lookup only for
\* an event of aiocqhttp with a group id; a call reports success only in the
\* step in which the set_group_kick it issued returned; and no step of the
\* call raises to the handler, which goes on to the throttle when the call
\* has returned.
C37_KickOnlyAsAdmin ==
    [][last'.op \in JoinOps =>
          /\ (last'.kickIssued /\ ~last'.finished) =>
                /\ last'.lookup \in {"owner", "admin"}
                /\ last'.group \notin {NULL, ""}
                /\ \E p \in InFlight :
                      p.pc = "bot_role" /\ p.group = last'.group /\ p.user = last'.user
          /\ (last'.kickCalled /\ ~last'.kickIssued /\ ~last'.finished) =>
                /\ last'.platform = "aiocqhttp"
                /\ last'.group \notin {NULL, ""}
          /\ (last'.kickIssued /\ last'.finished) =>
                \E p \in InFlight :
                    p.pc = "kick" /\ p.group = last'.group /\ p.user = last'.user
          /\ last'.success => last'.kickIssued /\ last'.finished
          /\ last'.kickCalled => ~last'.propagated /\ ~last'.caught
          /\ (last'.kickCalled /\ last'.finished) => last'.notifyCalled]_vars

\* the lookup reported the bot as owner and the call issued set_group_kick,
\* in which it is now suspended
C37_Witness ==
    /\ last.op = "join_resume" /\ last.kickIssued /\ ~last.finished
    /\ last.lookup = "owner"
    /\ \E p \in InFlight : p.pc = "kick" /\ p.group = last.group /\ p.user = last.user

\* ------------------------------------------------------------------------
\* Properties of the permission manager
\* ------------------------------------------------------------------------
\* the start times of the live calls are pairwise at least CacheTtl apart
CallsSpaced(times) ==
    \A i, j \in 1..Len(times) : i < j => times[j] - times[i] >= CacheTtl

\* C3 (as claimed): the resolutions of one (group, user) that start within
\* CacheTtl seconds of each other issue at most one get_group_member_info
\* call, also when they overlap in the live lookup.
C3_OneLiveCallPerTtl ==
    \A k \in DOMAIN liveCalls : CallsSpaced(liveCalls[k])

\* C6 (as claimed): while a resolution of a key is suspended between its
\* cache miss and its cache write, no other resolution of that key gets to
\* its cache check.
C6_CriticalSectionPerKey ==
    [][lastPerm'.op = "resolve" =>
          \A r \in Resolving :
              r.key # CacheKey(lastPerm'.event.group, lastPerm'.event.sender)]_vars

\* C7 (as claimed): an asynchronous check that runs to its answer without
\* suspending grants whenever the synchronous check of the same event
\* grants group-admin rights.
C7_SyncNeverMorePermissive ==
    (/\ lastPerm.op \in {"check", "resolve"}
     /\ lastPerm.finished
     /\ check_permission(lastPerm.event, "group_admin"))
        => lastPerm.result

\* C8 (as claimed): a live lookup that answers with a role other than owner
\* or admin makes the resolution return False and cache False without
\* regard to the static metadata of the event.
C8_NegativeLookupTrusted ==
    (lastPerm.op = "api_return" /\ lastPerm.resp = "member") =>
        /\ ~lastPerm.result
        /\ LET key == CacheKey(lastPerm.event.group, lastPerm.event.sender)
           IN  key \in DOMAIN permCache /\ ~permCache[key]

\* C18: an exception raised by the live lookup does not end the resolution:
\* it goes on to the static metadata, and what it returns and caches is the
\* classification of that metadata.
C18_LookupFailureFallsBack ==
    (lastPerm.op = "api_return" /\ lastPerm.resp = "raise") =>
        /\ lastPerm.finished
        /\ lastPerm.usedMeta
        /\ lastPerm.result = check_platform_meta_admin(lastPerm.event.meta,
                                                       lastPerm.event.sender)
        /\ LET key == CacheKey(lastPerm.event.group, lastPerm.event.sender)
           IN  key \in DOMAIN permCache => permCache[key] = lastPerm.result

\* the lookup raised and the metadata made the sender an administrator
C18_Witness ==
    /\ lastPerm.op = "api_return" /\ lastPerm.resp = "raise"
    /\ lastPerm.event.meta = StaticMeta
    /\ lastPerm.result

\* the cache key of the event of a permission step
KeyOf(check) == CacheKey(check.event.group, check.event.sender)

\* the step left the cache, its time stamps, the lock and the live lookups
\* as they were
CacheUntouched ==
    /\ permCache' = permCache
    /\ permStamps' = permStamps
    /\ cacheLock' = cacheLock
    /\ resolving' = resolving
    /\ liveCalls' = liveCalls

\* C25: a check of an actor whose role is admin grants, a check of another
\* actor in an event without group id refuses, and neither makes a live
\* lookup, uses a cache entry or changes the cache.
C25_ShortcutsBypassCache ==
    [][(/\ lastPerm'.op \in {"check", "resolve"}
        /\ (lastPerm'.event.role = "admin" \/ lastPerm'.event.group = ""))
          => /\ lastPerm'.finished
             /\ lastPerm'.result = (lastPerm'.event.role = "admin")
             /\ ~lastPerm'.called /\ ~lastPerm'.hit /\ ~lastPerm'.usedMeta
             /\ CacheUntouched]_vars

\* a system administrator was granted while the cache held a refusal for
\* the same group and user
C25_Witness ==
    /\ lastPerm.op = "check" /\ lastPerm.event.role = "admin" /\ lastPerm.result
    /\ KeyOf(lastPerm) \in DOMAIN permCache
    /\ ~permCache[KeyOf(lastPerm)]

\* C26: a resolution that finds an entry of its key younger than CacheTtl
\* returns the cached value without a live lookup and without the static
\* metadata, and leaves the value and the time stamp of the entry as they
\* were.
C26_HitReturnsCached ==
    [][(/\ lastPerm'.op = "resolve"
        /\ KeyOf(lastPerm') \in DOMAIN permCache
        /\ KeyOf(lastPerm') \in DOMAIN permStamps
        /\ clock - permStamps[KeyOf(lastPerm')] < CacheTtl)
          => /\ lastPerm'.hit /\ lastPerm'.finished
             /\ lastPerm'.result = permCache[KeyOf(lastPerm')]
             /\ ~lastPerm'.called /\ ~lastPerm'.usedMeta
             /\ CacheUntouched]_vars

\* an entry one second short of CacheTtl answered with a refusal an event
\* whose static metadata name the sender an administrator
C26_Witness ==
    /\ lastPerm.op = "resolve" /\ lastPerm.hit /\ ~lastPerm.result
    /\ check_platform_meta_admin(lastPerm.event.meta, lastPerm.event.sender)
    /\ clock - permStamps[KeyOf(lastPerm)] = CacheTtl - 1

\* C27: a resolution uses a cache entry only at an age below CacheTtl, an
\* entry of age CacheTtl or more is a miss, and a step that writes the
\* cache leaves no entry whose age against the time stamp written is
\* CacheTtl or more.
C27_TtlRespected ==
    [][/\ lastPerm'.hit => clock - permStamps[KeyOf(lastPerm')] < CacheTtl
       /\ (/\ lastPerm'.op = "resolve"
           /\ KeyOf(lastPerm') \in DOMAIN permStamps
           /\ clock - permStamps[KeyOf(lastPerm')] >= CacheTtl) => ~lastPerm'.hit
       /\ (permCache' # permCache \/ permStamps' # permStamps) =>
             /\ DOMAIN permCache' = DOMAIN permStamps'
             /\ KeyOf(lastPerm') \in DOMAIN permStamps'
             /\ \A k \in DOMAIN permStamps' :
                   permStamps'[KeyOf(lastPerm')] - permStamps'[k] < CacheTtl]_vars

\* a resolution wrote the cache CacheTtl seconds after the entry of another
\* user was written, and that entry is gone
C27_Witness ==
    /\ lastPerm.op = "resolve" /\ ~lastPerm.hit /\ lastPerm.finished
    /\ DOMAIN permStamps = {KeyOf(lastPerm)}
    /\ permStamps[KeyOf(lastPerm)] = StartTime + CacheTtl
    /\ lastPerm.event.sender = "555"

\* C39: the wrapper of super_admin_required runs the handler body exactly
\* when event.role is admin, so an actor who is only a group administrator
\* is denied; the wrapper of admin_required runs the body exactly when
\* the check_admin_permission_async call it awaited returned True; a wrapper
\* that denies yields its one denial message and does not run the body, a
\* wrapper that admits yields nothing of its own, and a suspended wrapper has
\* done neither.
C39_GatesAdmit ==
    /\ lastCmd.gate = "super_admin_required" =>
          /\ lastCmd.finished
          /\ lastCmd.body <=> (lastCmd.event.role = "admin")
    /\ (lastCmd.gate = "admin_required" /\ lastCmd.finished) =>
          /\ lastPerm.finished
          /\ lastPerm.event = lastCmd.event
          /\ lastCmd.body <=> lastPerm.result
    /\ (lastCmd.gate # "none" /\ lastCmd.finished) =>
          IF lastCmd.body THEN lastCmd.out = <<>>
          ELSE lastCmd.out = <<Denial(lastCmd.gate)>>
    /\ ~lastCmd.finished => (~lastCmd.body /\ lastCmd.out = <<>>)

\* a group administrator by the static metadata, not a system administrator,
\* was denied by super_admin_required with one message
C39_Witness ==
    /\ lastCmd.gate = "super_admin_required"
    /\ lastCmd.event.role # "admin"
    /\ check_platform_meta_admin(lastCmd.event.meta, lastCmd.event.sender)
    /\ lastCmd.event.group # ""
    /\ ~lastCmd.body
    /\ Len(lastCmd.out) = 1

\* C40: in every state, also while resolutions are suspended in their live
\* lookup, the cache of values and the table of timestamps have the same
\* keys.
C40_SameKeys == DOMAIN permCache = DOMAIN permStamps

\* a resolution returned and cached its answer while another resolution is
\* still suspended, time having passed since the adapter started, and the
\* cache holds an entry of each of the two users
C40_Witness ==
    /\ lastPerm.op = "api_return"
    /\ Resolving # {}
    /\ clock > StartTime
    /\ Cardinality(DOMAIN permCache) = 2
    /\ \E k1, k2 \in DOMAIN permStamps : permStamps[k1] # permStamps[k2]

\* ------------------------------------------------------------------------
\* Properties of the OneBot client
\* ------------------------------------------------------------------------
\* every attempt the call began sent its request and met an HTTP response
\* of the given status
EveryAttemptMet(c, status) ==
    /\ Len(c.seen) = c.attempt + 1
    /\ c.requests = Len(c.seen)
    /\ \A i \in 1..Len(c.seen) : c.seen[i].kind = "http" /\ c.seen[i].status = status

RefusedCall == [IdleCall EXCEPT !.pc = "done", !.result = Raised("OneBotApiError", 0)]

\* C14: once a close() has returned, the adapter stays closed and every
\* _make_request call begun afterwards ends at once with OneBotApiError,
\* having sent no request and created no session.
C14_ClosedForGood ==
    [][closeCompleted =>
          /\ closeCompleted' /\ adapterClosed'
          /\ (call.pc \in {"idle", "done"} /\ call' # call) =>
                /\ call' = RefusedCall
                /\ session' = session]_vars

\* a call begun after close() returned was refused while no session exists
C14_Witness ==
    /\ closeCompleted
    /\ call = RefusedCall
    /\ session = "none"

\* what an attempt met is a failure the retry policy retries
Retryable(resp) ==
    \/ resp.kind \in {"connect", "timeout", "client"}
    \/ resp.kind = "http" /\ resp.status >= 500

LastBody == call.seen[Len(call.seen)].body

\* C16: the ApiResponse a call returns reports success exactly when the
\* decoded body has status "ok" and retcode 0 (an absent status or retcode
\* gives failure); on failure it carries the message of the body, on success
\* its error_message is empty.
C16_SuccessIffOkAndZero ==
    call.result.type = "ApiResponse" =>
        /\ call.result.success <=>
              (/\ LastBody.kind = "json"
               /\ LastBody.status = "ok"
               /\ LastBody.hasRetcode /\ LastBody.retcode = 0)
        /\ call.result.success => call.result.error_message = ""
        /\ (~call.result.success /\ LastBody.kind = "json" /\ LastBody.message # Missing)
              => call.result.error_message = LastBody.message

\* a failed body came back as a failure with the platform's message
C16_Witness ==
    /\ call.result.type = "ApiResponse"
    /\ ~call.result.success
    /\ LastBody = WithMessage(Body("json", "failed", TRUE, 100), "no permission")
    /\ call.result.error_message = "no permission"

\* C24 (as claimed): an HTTP response of status below 400 ends the call at
\* once, no request or delay following it; a body that is not JSON raises
\* OneBotResponseError, and any body that decodes gives an ApiResponse, a
\* failed one carrying the message of the body unless its status is "ok" and
\* its retcode 0.
C24_SuccessStatusEndsCall ==
    (/\ call.seen # <<>>
     /\ call.seen[Len(call.seen)].kind = "http"
     /\ call.seen[Len(call.seen)].status < 400)
        => /\ call.pc = "done"
           /\ call.requests = Len(call.seen)
           /\ call.sleeps = Len(call.seen) - 1
           /\ IF LastBody.kind = "nojson"
              THEN call.result = Raised("OneBotResponseError", 0)
              ELSE /\ call.result.type = "ApiResponse"
                   /\ ~(/\ LastBody.kind = "json" /\ LastBody.status = "ok"
                        /\ LastBody.hasRetcode /\ LastBody.retcode = 0)
                         => /\ ~call.result.success
                            /\ LastBody.message # Missing
                                  => call.result.error_message = LastBody.message

\* the exception classes of the client: OneBotApiError and its subclasses
ApiErrors ==
    {"OneBotApiError", "OneBotNetworkError", "OneBotTimeoutError", "OneBotResponseError"}

\* C31 (as claimed): a call sends at most max_retries + 1 requests; a delay
\* is begun only when another attempt is still to come, so that a finished
\* call that sent k requests began k - 1 delays; and a finished call has
\* returned an ApiResponse or raised OneBotApiError (or a subclass).
C31_CallEndsBoundedAndTyped ==
    /\ call.requests <= max_retries + 1
    /\ call.pc = "sleeping" => call.sleeps = call.requests /\ call.requests <= max_retries
    /\ (call.pc = "done" /\ call.requests > 0) => call.sleeps = call.requests - 1
    /\ call.pc = "done" => call.result.type \in ApiErrors \cup {"ApiResponse"}

\* OneBotAdapter.kick_group_member around the call: it returns a pair for an
\* ApiResponse and for OneBotApiError (lines 313-319); any other exception
\* passes through it
kick_group_member(result) ==
    IF result.type = "ApiResponse" THEN "returned"
    ELSE IF result.type \in ApiErrors THEN "returned"
    ELSE "raised"

\* C38 (as claimed): a call whose retry delay ends after a close() has
\* closed or dropped the session sends no further request and ends with
\* OneBotApiError or a subclass, so that kick_group_member returns its pair.
C38_CloseDuringDelayTyped ==
    [][(call.pc = "sleeping" /\ session # "open" /\ call' # call) =>
          /\ call'.pc = "done"
          /\ call'.requests = call.requests
          /\ call'.result.type \in ApiErrors
          /\ kick_group_member(call'.result) = "returned"]_vars

====
